---- MODULE Spec2Model ----
(***************************************************************************)
(* pbxscribe API: credential resolution and lifecycle.                     *)
(*                                                                         *)
(* The store is the two tables users and user_credentials.  Every route    *)
(* handler is one action; POST /auth/register is two actions because two   *)
(* registrations interleave between its INSERT INTO users and its INSERT   *)
(* INTO user_credentials.  The clock counts days.  An Authorization header *)
(* is the sequence of its space-separated words.  SpecRace runs revoke and *)
(* ApiKey resolution one await at a time, and SpecMigrate runs POST        *)
(* /migrate and the migration runner one query at a time.                  *)
(***************************************************************************)
EXTENDS Integers, Sequences, FiniteSets, TLC

VARIABLES users, creds, nextUserId, nextCredId, now, jwtSecret, pending,
          tokens, keys, req, resp, steps,
          inflight, migrationSecret, schema_migrations, committed, runs

vars == <<users, creds, nextUserId, nextCredId, now, jwtSecret, pending,
          tokens, keys, req, resp, steps,
          inflight, migrationSecret, schema_migrations, committed, runs>>

(***************************************************************************)
(* Handlers suspended at an await (inflight), and the migration runner's   *)
(* side of the database: the schema_migrations table, how often each       *)
(* file's SQL has been committed, and the executions of runMigrations.     *)
(***************************************************************************)
migration == <<migrationSecret, schema_migrations, committed, runs>>

Files == <<"001_create_users_table.sql", "002_create_user_credentials_table.sql">>

store == <<users, creds>>

(***************************************************************************)
(* Bounds of the model.                                                    *)
(***************************************************************************)
MaxUsers == 2
MaxKeys == 2
MaxNow == 1
MaxTokens == 1
MaxPending == 2
MaxSteps == 6
MaxRuns == 3

(***************************************************************************)
(* Program constants.                                                      *)
(***************************************************************************)
NULL == -1
DEFAULT_EXPIRY == 1
DEFAULT_EXPIRES_IN_DAYS == 90
PREFIX == 1000
MIN_LENGTH == 8
SHA_MOD == 9973
SHA_MUL == 37
SHA_IV == 5
BCRYPT_MOD == 1009

Emails == {"a@x.com", "b@x.com"}
Names == {"A"}
Statuses == {"active", "inactive", "suspended"}

Upper == {"A", "B", "C", "X", "Y", "Z"}
Lower == {"a", "b", "c", "d", "e", "f", "g", "h", "x", "y", "z"}
Digits == {"0", "1", "2", "9"}
Alphabet == <<"A", "B", "C", "X", "Y", "Z",
              "a", "b", "c", "d", "e", "f", "g", "h", "x", "y", "z",
              "0", "1", "2", "9", "!", "#">>

PwStrong == <<"A", "b", "c", "d", "e", "f", "g", "1", "!">>
PwStrong2 == <<"X", "y", "z", "a", "b", "c", "d", "2", "#">>
PwNoUpper == <<"a", "b", "c", "d", "e", "f", "g", "1", "!">>
PwPlain == <<"A", "b", "c", "d", "e", "f", "g", "h">>
PwShortWeak == <<"a", "b", "c">>

Passwords == {PwStrong, PwStrong2, PwNoUpper, PwPlain, PwShortWeak}
RegisterPasswords == {PwStrong, PwNoUpper, PwPlain, PwShortWeak}
LoginPasswords == {PwStrong, PwStrong2}

(***************************************************************************)
(* utils/password.js                                                       *)
(***************************************************************************)
RULES ==
  << [test |-> [p \in Passwords |-> Len(p) >= MIN_LENGTH],
      message |-> "at least 8 characters"],
     [test |-> [p \in Passwords |-> \E i \in 1..Len(p) : p[i] \in Upper],
      message |-> "at least one uppercase letter"],
     [test |-> [p \in Passwords |-> \E i \in 1..Len(p) : p[i] \in Lower],
      message |-> "at least one lowercase letter"],
     [test |-> [p \in Passwords |-> \E i \in 1..Len(p) : p[i] \in Digits],
      message |-> "at least one number"],
     [test |-> [p \in Passwords |->
                  \E i \in 1..Len(p) : p[i] \notin (Upper \cup Lower \cup Digits)],
      message |-> "at least one special character"] >>

RECURSIVE FailedFrom(_, _)
FailedFrom(p, i) ==
  IF i > Len(RULES) THEN <<>>
  ELSE IF RULES[i].test[p] THEN FailedFrom(p, i + 1)
       ELSE <<RULES[i].message>> \o FailedFrom(p, i + 1)

checkPasswordStrength(plaintext) ==
  LET failures == FailedFrom(plaintext, 1)
  IN  [valid |-> Len(failures) = 0, failures |-> failures]

Code(c) == CHOOSE i \in 1..Len(Alphabet) : Alphabet[i] = c

RECURSIVE BcryptDigest(_, _, _)
BcryptDigest(p, i, acc) ==
  IF i > Len(p) THEN acc
  ELSE BcryptDigest(p, i + 1, (acc * 31 + Code(p[i])) % BCRYPT_MOD)

hashPassword(plaintext, salt) ==
  salt * BCRYPT_MOD + BcryptDigest(plaintext, 1, salt)

verifyPassword(plaintext, hash) ==
  BcryptDigest(plaintext, 1, hash \div BCRYPT_MOD) = hash % BCRYPT_MOD

(***************************************************************************)
(* utils/apiKey.js                                                         *)
(***************************************************************************)
generateApiKey(random) == PREFIX + random

RECURSIVE Sha256(_, _, _)
Sha256(words, i, acc) ==
  IF i > Len(words) THEN acc
  ELSE Sha256(words, i + 1, (acc * SHA_MUL + words[i] + 11) % SHA_MOD)

hashApiKeyIdentity(key) == IF Len(key) = 1 THEN key[1] ELSE 0

hashApiKey(key) == Sha256(key, 1, SHA_IV)

(***************************************************************************)
(* utils/jwt.js                                                            *)
(***************************************************************************)
NoSecret == ""

Sign(secret, claims) ==
  <<secret, claims.sub, claims.email, claims.name, claims.iat, claims.exp>>

generateToken(payload) ==
  IF jwtSecret = NoSecret
  THEN [ok |-> FALSE]
  ELSE LET claims == [sub |-> payload.sub, email |-> payload.email,
                      name |-> payload.name, iat |-> now,
                      exp |-> now + DEFAULT_EXPIRY]
       IN  [ok |-> TRUE,
            token |-> [sub |-> claims.sub, email |-> claims.email,
                       name |-> claims.name, iat |-> claims.iat,
                       exp |-> claims.exp, sig |-> Sign(jwtSecret, claims)]]

verifyTokenDecodeOnly(token) ==
  IF jwtSecret = NoSecret THEN [ok |-> FALSE]
  ELSE IF Len(token) # 1 THEN [ok |-> FALSE]
  ELSE IF now >= token[1].exp THEN [ok |-> FALSE]
  ELSE [ok |-> TRUE, decoded |-> token[1]]

verifyToken(token) ==
  IF jwtSecret = NoSecret THEN [ok |-> FALSE]
  ELSE IF Len(token) # 1 THEN [ok |-> FALSE]
  ELSE IF token[1].sig # Sign(jwtSecret, token[1]) THEN [ok |-> FALSE]
  ELSE IF now >= token[1].exp THEN [ok |-> FALSE]
  ELSE [ok |-> TRUE, decoded |-> token[1]]

(***************************************************************************)
(* repositories/userRepository.js                                          *)
(***************************************************************************)
NoRow == [id |-> NULL]

EmailNeverTaken(email) == FALSE

EmailTaken(email) == \E i \in DOMAIN users : users[i].email = email

createUser(email, name) ==
  [id |-> nextUserId, email |-> email, name |-> name, status |-> "active"]

findUserById(id) == IF id \in DOMAIN users THEN users[id] ELSE NoRow

findUserByEmail(email) ==
  IF EmailTaken(email)
  THEN users[CHOOSE i \in DOMAIN users : users[i].email = email]
  ELSE NoRow

updateUser(id, fields) ==
  IF id \notin DOMAIN users THEN users
  ELSE [users EXCEPT ![id] =
          [id |-> @.id, email |-> @.email,
           name |-> IF "name" \in DOMAIN fields THEN fields.name ELSE @.name,
           status |-> IF "status" \in DOMAIN fields THEN fields.status ELSE @.status]]

deleteUser(id) == [i \in DOMAIN users \ {id} |-> users[i]]

Cascade(cs, id) == [c \in {d \in DOMAIN cs : cs[d].user_id # id} |-> cs[c]]

RECURSIVE ListUsersFrom(_)
ListUsersFrom(ids) ==
  IF ids = {} THEN <<>>
  ELSE LET top == CHOOSE i \in ids : \A j \in ids : j <= i
       IN  <<users[top]>> \o ListUsersFrom(ids \ {top})

listUsers(status) ==
  ListUsersFrom({i \in DOMAIN users : status = "" \/ users[i].status = status})

(***************************************************************************)
(* repositories/credentialRepository.js                                    *)
(***************************************************************************)
createCredentialAlwaysExpiring(userId, credentialType, credentialHash, label, expiresAt) ==
  [id |-> nextCredId, user_id |-> userId, credential_type |-> credentialType,
   credential_hash |-> credentialHash, label |-> label, is_active |-> TRUE,
   last_used_at |-> NULL,
   expires_at |-> IF expiresAt = NULL THEN now + DEFAULT_EXPIRES_IN_DAYS ELSE expiresAt,
   created_at |-> now, updated_at |-> now]

createCredential(userId, credentialType, credentialHash, label, expiresAt) ==
  [id |-> nextCredId, user_id |-> userId, credential_type |-> credentialType,
   credential_hash |-> credentialHash, label |-> label, is_active |-> TRUE,
   last_used_at |-> NULL, expires_at |-> expiresAt, created_at |-> now,
   updated_at |-> now]

Returning(row) ==
  [id |-> row.id, user_id |-> row.user_id,
   credential_type |-> row.credential_type, label |-> row.label,
   is_active |-> row.is_active, last_used_at |-> row.last_used_at,
   expires_at |-> row.expires_at, created_at |-> row.created_at]

RECURSIVE OrderByCreatedDesc(_, _)
OrderByCreatedDesc(cs, ids) ==
  IF ids = {} THEN <<>>
  ELSE LET top == CHOOSE i \in ids :
                    \A j \in ids : \/ cs[j].created_at < cs[i].created_at
                                   \/ (cs[j].created_at = cs[i].created_at /\ j <= i)
       IN  <<Returning(cs[top])>> \o OrderByCreatedDesc(cs, ids \ {top})

findCredentialsByUserId(cs, userId, credentialType) ==
  OrderByCreatedDesc(cs, {i \in DOMAIN cs : /\ cs[i].user_id = userId
                                            /\ cs[i].credential_type = credentialType})

EligibleWhileNoKeyExpired(cs, i, hash, credentialType) ==
  /\ cs[i].credential_type = credentialType
  /\ cs[i].credential_hash = hash
  /\ cs[i].is_active = TRUE
  /\ cs[i].user_id \in DOMAIN users
  /\ users[cs[i].user_id].status = "active"
  /\ \A j \in DOMAIN cs :
       (cs[j].user_id = cs[i].user_id /\ cs[j].credential_type = credentialType)
         => (cs[j].expires_at = NULL \/ cs[j].expires_at > now)

EligibleIgnoringExpiry(cs, i, hash, credentialType) ==
  /\ cs[i].credential_type = credentialType
  /\ cs[i].credential_hash = hash
  /\ cs[i].is_active = TRUE
  /\ cs[i].user_id \in DOMAIN users
  /\ users[cs[i].user_id].status = "active"

Eligible(cs, i, hash, credentialType) ==
  /\ cs[i].credential_type = credentialType
  /\ cs[i].credential_hash = hash
  /\ cs[i].is_active = TRUE
  /\ cs[i].user_id \in DOMAIN users
  /\ users[cs[i].user_id].status = "active"
  /\ (cs[i].expires_at = NULL \/ cs[i].expires_at > now)

findActiveCredentialByHash(cs, hash, credentialType) ==
  LET rows == {i \in DOMAIN cs : Eligible(cs, i, hash, credentialType)}
  IN  IF rows = {} THEN NoRow
      ELSE LET i == CHOOSE r \in rows : \A q \in rows : r <= q
           IN  [credential |-> [id |-> cs[i].id, user_id |-> cs[i].user_id,
                                credential_type |-> cs[i].credential_type,
                                label |-> cs[i].label,
                                is_active |-> cs[i].is_active,
                                expires_at |-> cs[i].expires_at,
                                last_used_at |-> cs[i].last_used_at],
                user |-> [id |-> cs[i].user_id,
                          email |-> users[cs[i].user_id].email,
                          name |-> users[cs[i].user_id].name,
                          status |-> users[cs[i].user_id].status]]

deactivateToggling(cs, credentialId) ==
  IF credentialId \in DOMAIN cs
  THEN [cs EXCEPT ![credentialId].is_active = ~@,
                  ![credentialId].updated_at = now]
  ELSE cs

deactivateCredentialDeleting(cs, credentialId) ==
  [c \in DOMAIN cs \ {credentialId} |-> cs[c]]

deactivateCredential(cs, credentialId) ==
  IF credentialId \in DOMAIN cs
  THEN [cs EXCEPT ![credentialId].is_active = FALSE,
                  ![credentialId].updated_at = now]
  ELSE cs

updateLastUsedEveryRow(cs, credentialId) ==
  IF credentialId \in DOMAIN cs
  THEN [i \in DOMAIN cs |-> [cs[i] EXCEPT !.last_used_at = now, !.updated_at = now]]
  ELSE cs

updateLastUsedReactivating(cs, credentialId) ==
  IF credentialId \in DOMAIN cs
  THEN [cs EXCEPT ![credentialId].last_used_at = now,
                  ![credentialId].updated_at = now,
                  ![credentialId].is_active = TRUE]
  ELSE cs

updateLastUsed(cs, credentialId) ==
  IF credentialId \in DOMAIN cs
  THEN [cs EXCEPT ![credentialId].last_used_at = now,
                  ![credentialId].updated_at = now]
  ELSE cs

(***************************************************************************)
(* plugins/auth.js                                                         *)
(***************************************************************************)
Unauthorized(message) ==
  [status |-> 401, body |-> [error |-> [message |-> <<message>>, statusCode |-> 401]]]

NoHeader == <<>>

BearerAuthTrusting(value) ==
  LET verified == verifyToken(value)
  IN  IF ~verified.ok
      THEN [ok |-> FALSE, reply |-> Unauthorized("Invalid or expired token")]
      ELSE [ok |-> TRUE,
            user |-> [id |-> verified.decoded.sub, email |-> verified.decoded.email,
                      name |-> verified.decoded.name, status |-> "active"],
            touch |-> NULL]

BearerAuth(value) ==
  LET verified == verifyToken(value)
  IN  IF ~verified.ok
      THEN [ok |-> FALSE, reply |-> Unauthorized("Invalid or expired token")]
      ELSE LET user == findUserById(verified.decoded.sub)
           IN  IF user = NoRow \/ user.status # "active"
               THEN [ok |-> FALSE,
                     reply |-> Unauthorized("User not found or inactive")]
               ELSE [ok |-> TRUE, user |-> user, touch |-> NULL]

ApiKeyAuth(value) ==
  LET hash == hashApiKey(value)
      result == findActiveCredentialByHash(creds, hash, "api_key")
  IN  IF result = NoRow
      THEN [ok |-> FALSE, reply |-> Unauthorized("Invalid or revoked API key")]
      ELSE [ok |-> TRUE, user |-> result.user, touch |-> result.credential.id]

authenticate(authHeader) ==
  IF authHeader = NoHeader
  THEN [ok |-> FALSE, reply |-> Unauthorized("Authorization header required")]
  ELSE
    LET scheme == Head(authHeader)
        value == Tail(authHeader)
    IN  IF scheme = "Bearer" THEN BearerAuth(value)
        ELSE IF scheme = "ApiKey" THEN ApiKeyAuth(value)
        ELSE [ok |-> FALSE,
              reply |-> Unauthorized("Unsupported auth scheme. Use Bearer or ApiKey")]

(***************************************************************************)
(* The fire-and-forget updateLastUsed of a successful ApiKey resolution:   *)
(* the statement either runs or fails, and its error is swallowed.         *)
(***************************************************************************)
Touched(auth, touchOk) ==
  IF auth.ok /\ auth.touch # NULL /\ touchOk
  THEN updateLastUsed(creds, auth.touch)
  ELSE creds

(***************************************************************************)
(* app.js: the error handler's reply to a thrown error.                    *)
(***************************************************************************)
ErrorReply(statusCode, message) ==
  [status |-> statusCode,
   body |-> [error |-> [message |-> IF statusCode = 500
                                     THEN <<"Internal Server Error">>
                                     ELSE <<message>>,
                        statusCode |-> statusCode, timestamp |-> now]]]

Reply(status, body) == [status |-> status, body |-> body]

(***************************************************************************)
(* What the clients hold: tokens and keys that responses handed out.       *)
(***************************************************************************)
ForgedClaims ==
  [sub |-> 1, email |-> "a@x.com", name |-> "A", iat |-> 0,
   exp |-> MaxNow + DEFAULT_EXPIRY + 1]

ForgedToken ==
  [sub |-> ForgedClaims.sub, email |-> ForgedClaims.email,
   name |-> ForgedClaims.name, iat |-> ForgedClaims.iat,
   exp |-> ForgedClaims.exp, sig |-> Sign("forged", ForgedClaims)]

UnknownKey == PREFIX

Headers ==
  {NoHeader}
    \cup {<<"Bearer", t>> : t \in tokens \cup {ForgedToken}}
    \cup {<<"ApiKey", k>> : k \in keys \cup {UnknownKey}}

Kept(token) ==
  {held \in SUBSET (tokens \cup {token}) : Cardinality(held) <= MaxTokens}

NoLabel == ""
Labels == {"ci"}
Salts == {3}
NoBody == [empty |-> TRUE]
NoExchange == [op |-> "none"]
MaxCreds == MaxUsers + MaxKeys
Idle == resp = NoExchange
Begin ==
  /\ Idle
  /\ steps < MaxSteps
  /\ steps' = steps + 1
  /\ UNCHANGED <<inflight, migration>>

TypeOK ==
  /\ DOMAIN users \subseteq 1..MaxUsers
  /\ DOMAIN creds \subseteq 1..MaxCreds
  /\ Cardinality(keys) <= MaxKeys
  /\ nextUserId \in 1..(MaxUsers + 1)
  /\ nextCredId \in 1..(MaxCreds + 1)
  /\ now \in 0..MaxNow
  /\ Cardinality(tokens) <= MaxTokens
  /\ Cardinality(pending) <= MaxPending
  /\ Len(runs) <= MaxRuns
  /\ Len(schema_migrations) <= Len(Files)

Init ==
  /\ users = << >>
  /\ creds = << >>
  /\ nextUserId = 1
  /\ nextCredId = 1
  /\ now = 0
  /\ jwtSecret = "s1"
  /\ pending = {}
  /\ tokens = {}
  /\ keys = {}
  /\ req = NoExchange
  /\ resp = NoExchange
  /\ steps = 0
  /\ inflight = {}
  /\ migrationSecret = "m1"
  /\ schema_migrations = << >>
  /\ committed = [f \in 1..Len(Files) |-> 0]
  /\ runs = << >>

(***************************************************************************)
(* routes/auth.js: POST /auth/register, up to and including createUser.    *)
(***************************************************************************)
RegisterRequest(email, name, password) ==
  [op |-> "POST /auth/register",
   body |-> [email |-> email, name |-> name, password |-> password]]

WeakReply(failures) ==
  Reply(422, [error |-> [message |-> <<"Password too weak: ">> \o failures,
                         statusCode |-> 422]])

ConflictReplyGeneric ==
  Reply(500, [error |-> [message |-> <<"Internal Server Error">>, statusCode |-> 500]])

ConflictReply ==
  Reply(409, [error |-> [message |-> <<"A user with this email already exists">>,
                         statusCode |-> 409]])

Register(email, name, password) ==
  LET request == RegisterRequest(email, name, password)
      strength == checkPasswordStrength(password)
  IN  /\ Begin
      /\ UNCHANGED <<creds, nextCredId, now, jwtSecret, tokens, keys>>
      /\ IF Len(password) < MIN_LENGTH
         THEN /\ req' = request
              /\ resp' = ErrorReply(400, "body/password must NOT have fewer than 8 characters")
              /\ UNCHANGED <<users, nextUserId, pending>>
         ELSE IF ~strength.valid
         THEN /\ req' = request
              /\ resp' = WeakReply(strength.failures)
              /\ UNCHANGED <<users, nextUserId, pending>>
         ELSE IF EmailTaken(email)
         THEN /\ req' = request
              /\ resp' = ConflictReply
              /\ UNCHANGED <<users, nextUserId, pending>>
         ELSE /\ nextUserId <= MaxUsers
              /\ Cardinality(pending) < MaxPending
              /\ users' = users @@ (nextUserId :> createUser(email, name))
              /\ nextUserId' = nextUserId + 1
              /\ pending' = pending \cup
                              {[request |-> request, user |-> createUser(email, name)]}
              /\ req' = NoExchange
              /\ resp' = NoExchange

(***************************************************************************)
(* routes/auth.js: POST /auth/register, from hashPassword to the reply.    *)
(***************************************************************************)
RegisterFinish(p, salt) ==
  LET hash == hashPassword(p.request.body.password, salt)
      issued == generateToken([sub |-> p.user.id, email |-> p.user.email,
                               name |-> p.user.name])
  IN  /\ Begin
      /\ p \in pending
      /\ pending' = pending \ {p}
      /\ req' = p.request
      /\ UNCHANGED <<users, nextUserId, now, jwtSecret, keys>>
      /\ IF p.user.id \notin DOMAIN users
         THEN /\ resp' = ErrorReply(500, "foreign key violation")
              /\ UNCHANGED <<creds, nextCredId, tokens>>
         ELSE /\ nextCredId <= MaxCreds
              /\ creds' = creds @@ (nextCredId :>
                            createCredential(p.user.id, "password", hash, "password", NULL))
              /\ nextCredId' = nextCredId + 1
              /\ IF ~issued.ok
                 THEN /\ resp' = ErrorReply(500, "JWT_SECRET environment variable is not set")
                      /\ UNCHANGED tokens
                 ELSE /\ resp' = Reply(201, [user |-> p.user, token |-> issued.token])
                      /\ tokens' \in Kept(issued.token)

(***************************************************************************)
(* routes/auth.js: POST /auth/login.                                       *)
(***************************************************************************)
genericError == [error |-> [message |-> <<"Invalid credentials">>, statusCode |-> 401]]

RECURSIVE FirstMatch(_, _, _)
FirstMatch(active, i, password) ==
  IF i > Len(active) THEN NoRow
  ELSE IF /\ active[i].id \in DOMAIN creds
          /\ verifyPassword(password, creds[active[i].id].credential_hash)
       THEN active[i]
       ELSE FirstMatch(active, i + 1, password)

IsActiveOrNot(c) == TRUE

IsActive(c) == c.is_active

MatchedCredential(user, password) ==
  LET credentials == findCredentialsByUserId(creds, user.id, "password")
      active == SelectSeq(credentials, IsActive)
  IN  FirstMatch(active, 1, password)

LoginFailureRevealing(user, matchedCredential) ==
  IF user = NoRow
  THEN Reply(404, [error |-> [message |-> <<"User not found">>, statusCode |-> 404]])
  ELSE Reply(401, genericError)

LoginFailure(user, matchedCredential) == Reply(401, genericError)

Login(email, password, touchOk) ==
  LET user == findUserByEmail(email)
  IN  /\ Begin
      /\ req' = [op |-> "POST /auth/login",
                 body |-> [email |-> email, password |-> password]]
      /\ UNCHANGED <<users, nextUserId, nextCredId, now, jwtSecret, pending, keys>>
      /\ IF user = NoRow \/ user.status # "active"
         THEN /\ resp' = LoginFailure(user, NoRow)
              /\ UNCHANGED <<creds, tokens>>
         ELSE LET matchedCredential == MatchedCredential(user, password)
                  issued == generateToken([sub |-> user.id, email |-> user.email,
                                           name |-> user.name])
              IN  IF matchedCredential = NoRow
                  THEN /\ resp' = LoginFailure(user, matchedCredential)
                       /\ UNCHANGED <<creds, tokens>>
                  ELSE /\ creds' = IF touchOk
                                   THEN updateLastUsed(creds, matchedCredential.id)
                                   ELSE creds
                       /\ IF ~issued.ok
                          THEN /\ resp' = ErrorReply(500, "JWT_SECRET environment variable is not set")
                               /\ UNCHANGED tokens
                          ELSE /\ resp' = Reply(200, [token |-> issued.token, user |-> user])
                               /\ tokens' \in Kept(issued.token)

(***************************************************************************)
(* A protected route: the preHandler authenticate, then the handler.       *)
(***************************************************************************)
Rejected(request, auth) ==
  /\ Begin
  /\ ~auth.ok
  /\ req' = request
  /\ resp' = auth.reply
  /\ UNCHANGED <<users, creds, nextUserId, nextCredId, now, jwtSecret,
                 pending, tokens, keys>>

NotFound(message) ==
  Reply(404, [error |-> [message |-> <<message>>, statusCode |-> 404]])

(***************************************************************************)
(* routes/auth.js: GET /auth/me.                                           *)
(***************************************************************************)
MeSchema(user) == [id |-> user.id, email |-> user.email, name |-> user.name]

AuthMeAwaitingTouch(hdr, touchOk) ==
  LET request == [op |-> "GET /auth/me", hdr |-> hdr]
      auth == authenticate(hdr)
  IN  \/ Rejected(request, auth)
      \/ /\ Begin
         /\ auth.ok
         /\ req' = request
         /\ creds' = Touched(auth, touchOk)
         /\ resp' = IF auth.touch # NULL /\ ~touchOk
                    THEN ErrorReply(500, "updateLastUsed failed")
                    ELSE Reply(200, MeSchema(auth.user))
         /\ UNCHANGED <<users, nextUserId, nextCredId, now, jwtSecret,
                        pending, tokens, keys>>

AuthMe(hdr, touchOk) ==
  LET request == [op |-> "GET /auth/me", hdr |-> hdr]
      auth == authenticate(hdr)
  IN  \/ Rejected(request, auth)
      \/ /\ Begin
         /\ auth.ok
         /\ req' = request
         /\ creds' = Touched(auth, touchOk)
         /\ resp' = Reply(200, MeSchema(auth.user))
         /\ UNCHANGED <<users, nextUserId, nextCredId, now, jwtSecret,
                        pending, tokens, keys>>

(***************************************************************************)
(* routes/apiKeys.js: GET /api-keys.                                       *)
(***************************************************************************)
KeySchema(c) ==
  [id |-> c.id, label |-> c.label, is_active |-> c.is_active,
   last_used_at |-> c.last_used_at, expires_at |-> c.expires_at,
   created_at |-> c.created_at]

ListKeys(hdr, touchOk) ==
  LET request == [op |-> "GET /api-keys", hdr |-> hdr]
      auth == authenticate(hdr)
  IN  \/ Rejected(request, auth)
      \/ /\ Begin
         /\ auth.ok
         /\ req' = request
         /\ creds' = Touched(auth, touchOk)
         /\ LET credentials == findCredentialsByUserId(creds', auth.user.id, "api_key")
            IN  resp' = Reply(200, [api_keys |->
                          [i \in 1..Len(credentials) |-> KeySchema(credentials[i])]])
         /\ UNCHANGED <<users, nextUserId, nextCredId, now, jwtSecret,
                        pending, tokens, keys>>

(***************************************************************************)
(* routes/apiKeys.js: POST /api-keys.                                      *)
(***************************************************************************)
Absent == 0
ExpiryInputs == {Absent, 1}
Randoms == {Cardinality(keys) + 1}

IssueKey(hdr, touchOk, label, expires_in_days, random) ==
  LET request == [op |-> "POST /api-keys", hdr |-> hdr,
                  body |-> [label |-> label, expires_in_days |-> expires_in_days]]
      auth == authenticate(hdr)
      days == IF expires_in_days = Absent THEN DEFAULT_EXPIRES_IN_DAYS
              ELSE expires_in_days
      expiresAt == now + days
      plainKey == generateApiKey(random)
      hash == hashApiKey(<<plainKey>>)
      credential == createCredential(auth.user.id, "api_key", hash, label, expiresAt)
  IN  \/ Rejected(request, auth)
      \/ /\ Begin
         /\ auth.ok
         /\ Cardinality(keys) < MaxKeys
         /\ plainKey \notin keys
         /\ req' = request
         /\ creds' = Touched(auth, touchOk) @@ (nextCredId :> credential)
         /\ nextCredId' = nextCredId + 1
         /\ keys' = keys \cup {plainKey}
         /\ resp' = Reply(201, [id |-> credential.id, key |-> plainKey,
                                label |-> credential.label,
                                expires_at |-> credential.expires_at,
                                created_at |-> credential.created_at])
         /\ UNCHANGED <<users, nextUserId, now, jwtSecret, pending, tokens>>

(***************************************************************************)
(* The earlier routes/auth.js: POST /auth/api-keys.                        *)
(***************************************************************************)
IssueKeyAuth(hdr, touchOk, label, expires_in_days, random) ==
  LET request == [op |-> "POST /auth/api-keys", hdr |-> hdr,
                  body |-> [label |-> label, expires_in_days |-> expires_in_days]]
      auth == authenticate(hdr)
      expiresAt == IF expires_in_days = Absent THEN NULL
                   ELSE now + expires_in_days
      plainKey == generateApiKey(random)
      hash == hashApiKey(<<plainKey>>)
      credential == createCredential(auth.user.id, "api_key", hash, label, expiresAt)
  IN  \/ Rejected(request, auth)
      \/ /\ Begin
         /\ auth.ok
         /\ Cardinality(keys) < MaxKeys
         /\ plainKey \notin keys
         /\ req' = request
         /\ creds' = Touched(auth, touchOk) @@ (nextCredId :> credential)
         /\ nextCredId' = nextCredId + 1
         /\ keys' = keys \cup {plainKey}
         /\ resp' = Reply(201, [id |-> credential.id, key |-> plainKey,
                                label |-> credential.label,
                                expires_at |-> credential.expires_at,
                                created_at |-> credential.created_at])
         /\ UNCHANGED <<users, nextUserId, now, jwtSecret, pending, tokens>>

(***************************************************************************)
(* routes/apiKeys.js: DELETE /api-keys/:id, and the earlier                *)
(* DELETE /auth/api-keys/:id of routes/auth.js.                            *)
(***************************************************************************)
OwnedByAnyone(cs, userId, id) ==
  id \in DOMAIN cs /\ cs[id].credential_type = "api_key"

OwnedWhileActive(cs, userId, id) ==
  LET credentials == findCredentialsByUserId(cs, userId, "api_key")
  IN  \E i \in 1..Len(credentials) :
        credentials[i].id = id /\ credentials[i].is_active

Owned(cs, userId, id) ==
  LET credentials == findCredentialsByUserId(cs, userId, "api_key")
  IN  \E i \in 1..Len(credentials) : credentials[i].id = id

Revoke(op, hdr, touchOk, id) ==
  LET request == [op |-> op, hdr |-> hdr, params |-> [id |-> id]]
      auth == authenticate(hdr)
      touched == Touched(auth, touchOk)
  IN  \/ Rejected(request, auth)
      \/ /\ Begin
         /\ auth.ok
         /\ req' = request
         /\ IF ~Owned(touched, auth.user.id, id)
            THEN /\ resp' = NotFound("API key not found")
                 /\ creds' = touched
            ELSE /\ creds' = deactivateCredential(touched, id)
                 /\ resp' = Reply(204, NoBody)
         /\ UNCHANGED <<users, nextUserId, nextCredId, now, jwtSecret,
                        pending, tokens, keys>>

RevokeKey(hdr, touchOk, id) == Revoke("DELETE /api-keys/:id", hdr, touchOk, id)

RevokeKeyAuth(hdr, touchOk, id) == Revoke("DELETE /auth/api-keys/:id", hdr, touchOk, id)

(***************************************************************************)
(* routes/users.js                                                         *)
(***************************************************************************)
CreateUser(hdr, touchOk, email, name) ==
  LET request == [op |-> "POST /users", hdr |-> hdr,
                  body |-> [email |-> email, name |-> name]]
      auth == authenticate(hdr)
  IN  \/ Rejected(request, auth)
      \/ /\ Begin
         /\ auth.ok
         /\ req' = request
         /\ creds' = Touched(auth, touchOk)
         /\ IF EmailTaken(email)
            THEN /\ resp' = ConflictReply
                 /\ UNCHANGED <<users, nextUserId>>
            ELSE /\ nextUserId <= MaxUsers
                 /\ users' = users @@ (nextUserId :> createUser(email, name))
                 /\ nextUserId' = nextUserId + 1
                 /\ resp' = Reply(201, createUser(email, name))
         /\ UNCHANGED <<nextCredId, now, jwtSecret, pending, tokens, keys>>

ListUsers(hdr, touchOk, status) ==
  LET request == [op |-> "GET /users", hdr |-> hdr, query |-> [status |-> status]]
      auth == authenticate(hdr)
  IN  \/ Rejected(request, auth)
      \/ /\ Begin
         /\ auth.ok
         /\ req' = request
         /\ creds' = Touched(auth, touchOk)
         /\ resp' = Reply(200, [users |-> listUsers(status),
                                total |-> Len(listUsers(status)),
                                limit |-> 20, offset |-> 0])
         /\ UNCHANGED <<users, nextUserId, nextCredId, now, jwtSecret,
                        pending, tokens, keys>>

GetUser(hdr, touchOk, id) ==
  LET request == [op |-> "GET /users/:id", hdr |-> hdr, params |-> [id |-> id]]
      auth == authenticate(hdr)
      user == findUserById(id)
  IN  \/ Rejected(request, auth)
      \/ /\ Begin
         /\ auth.ok
         /\ req' = request
         /\ creds' = Touched(auth, touchOk)
         /\ resp' = IF user = NoRow THEN NotFound("User not found")
                    ELSE Reply(200, user)
         /\ UNCHANGED <<users, nextUserId, nextCredId, now, jwtSecret,
                        pending, tokens, keys>>

UserUpdates ==
  {[status |-> st] : st \in Statuses} \cup {[name |-> n] : n \in Names}

UpdateUser(hdr, touchOk, id, fields) ==
  LET request == [op |-> "PUT /users/:id", hdr |-> hdr, params |-> [id |-> id],
                  body |-> fields]
      auth == authenticate(hdr)
  IN  \/ Rejected(request, auth)
      \/ /\ Begin
         /\ auth.ok
         /\ req' = request
         /\ creds' = Touched(auth, touchOk)
         /\ users' = updateUser(id, fields)
         /\ resp' = IF id \notin DOMAIN users THEN NotFound("User not found")
                    ELSE Reply(200, users'[id])
         /\ UNCHANGED <<nextUserId, nextCredId, now, jwtSecret,
                        pending, tokens, keys>>

DeleteUserUnprotected(hdr, touchOk, id) ==
  LET request == [op |-> "DELETE /users/:id", hdr |-> hdr, params |-> [id |-> id]]
  IN  /\ Begin
      /\ req' = request
      /\ users' = deleteUser(id)
      /\ creds' = Cascade(creds, id)
      /\ resp' = IF id \notin DOMAIN users THEN NotFound("User not found")
                 ELSE Reply(204, NoBody)
      /\ UNCHANGED <<nextUserId, nextCredId, now, jwtSecret,
                     pending, tokens, keys>>

DeleteUser(hdr, touchOk, id) ==
  LET request == [op |-> "DELETE /users/:id", hdr |-> hdr, params |-> [id |-> id]]
      auth == authenticate(hdr)
  IN  \/ Rejected(request, auth)
      \/ /\ Begin
         /\ auth.ok
         /\ req' = request
         /\ users' = deleteUser(id)
         /\ creds' = Cascade(Touched(auth, touchOk), id)
         /\ resp' = IF id \notin DOMAIN users THEN NotFound("User not found")
                    ELSE Reply(204, NoBody)
         /\ UNCHANGED <<nextUserId, nextCredId, now, jwtSecret,
                        pending, tokens, keys>>

(***************************************************************************)
(* deactivateCredential run directly against the store.                    *)
(***************************************************************************)
Deactivate(id) ==
  /\ Begin
  /\ id \in DOMAIN creds
  /\ creds' = deactivateCredential(creds, id)
  /\ req' = NoExchange
  /\ resp' = NoExchange
  /\ UNCHANGED <<users, nextUserId, nextCredId, now, jwtSecret,
                 pending, tokens, keys>>

(***************************************************************************)
(* The reply leaves the server: the model records one exchange at a time.  *)
(***************************************************************************)
Deliver ==
  /\ ~Idle
  /\ req' = NoExchange
  /\ resp' = NoExchange
  /\ UNCHANGED <<users, creds, nextUserId, nextCredId, now, jwtSecret,
                 pending, tokens, keys, steps, inflight, migration>>

(***************************************************************************)
(* The store's clock, NOW(), moves on by a day.                            *)
(***************************************************************************)
Tick ==
  /\ Begin
  /\ now < MaxNow
  /\ now' = now + 1
  /\ req' = NoExchange
  /\ resp' = NoExchange
  /\ UNCHANGED <<users, creds, nextUserId, nextCredId, jwtSecret,
                 pending, tokens, keys>>

Next ==
  \/ \E e \in Emails, n \in Names, p \in RegisterPasswords : Register(e, n, p)
  \/ \E p \in pending, salt \in Salts : RegisterFinish(p, salt)
  \/ \E e \in Emails, p \in LoginPasswords, t \in BOOLEAN : Login(e, p, t)
  \/ \E h \in Headers, t \in BOOLEAN : AuthMe(h, t)
  \/ \E h \in Headers, t \in BOOLEAN : ListKeys(h, t)
  \/ \E h \in Headers, t \in BOOLEAN, l \in Labels, d \in ExpiryInputs, r \in Randoms :
       IssueKey(h, t, l, d, r)
  \/ \E h \in Headers, t \in BOOLEAN, l \in Labels, r \in Randoms :
       IssueKeyAuth(h, t, l, Absent, r)
  \/ \E h \in Headers, t \in BOOLEAN, id \in 1..MaxCreds : RevokeKey(h, t, id)
  \/ \E h \in Headers, t \in BOOLEAN, id \in 1..MaxCreds : RevokeKeyAuth(h, t, id)
  \/ \E h \in Headers, t \in BOOLEAN, e \in Emails, n \in Names : CreateUser(h, t, e, n)
  \/ \E h \in Headers, t \in BOOLEAN, st \in Statuses \cup {""} : ListUsers(h, t, st)
  \/ \E h \in Headers, t \in BOOLEAN, id \in 1..MaxUsers : GetUser(h, t, id)
  \/ \E h \in Headers, t \in BOOLEAN, id \in 1..MaxUsers, f \in UserUpdates :
       UpdateUser(h, t, id, f)
  \/ \E h \in Headers, t \in BOOLEAN, id \in 1..MaxUsers : DeleteUser(h, t, id)
  \/ \E id \in 1..MaxCreds : Deactivate(id)
  \/ Deliver
  \/ Tick

Spec == Init /\ [][Next]_vars

(***************************************************************************)
(* Properties.  A step taken from an Idle state handles one request: req'  *)
(* is the request, resp' the reply, and the unprimed variables are the     *)
(* store the handler read.                                                 *)
(***************************************************************************)
ApiKeyRequest(r) ==
  "hdr" \in DOMAIN r /\ r.hdr # NoHeader /\ Head(r.hdr) = "ApiKey"

BearerRequest(r) ==
  "hdr" \in DOMAIN r /\ r.hdr # NoHeader /\ Head(r.hdr) = "Bearer"

RevokeOps == {"DELETE /api-keys/:id", "DELETE /auth/api-keys/:id"}

IssueOps == {"POST /api-keys", "POST /auth/api-keys"}

EligibleExists(value) ==
  \E i \in DOMAIN creds :
    /\ creds[i].credential_type = "api_key"
    /\ creds[i].credential_hash = hashApiKey(value)
    /\ creds[i].is_active
    /\ (creds[i].expires_at = NULL \/ creds[i].expires_at > now)
    /\ creds[i].user_id \in DOMAIN users
    /\ users[creds[i].user_id].status = "active"

(* C1: an ApiKey resolution succeeds if and only if the store holds an     *)
(* api_key credential whose hash is the digest of the presented value, is  *)
(* active, has no expiry or one after now, and whose owner is active.      *)
C1_ApiKeyEligibility ==
  [][(Idle /\ ApiKeyRequest(req'))
       => ((resp'.status # 401) <=> EligibleExists(Tail(req'.hdr)))]_vars

C1_RevokedBeforeExpiryRejected ==
  /\ ApiKeyRequest(req)
  /\ resp = Unauthorized("Invalid or revoked API key")
  /\ \E i \in DOMAIN creds :
       /\ creds[i].credential_type = "api_key"
       /\ creds[i].credential_hash = hashApiKey(Tail(req.hdr))
       /\ ~creds[i].is_active
       /\ creds[i].expires_at > now
       /\ users[creds[i].user_id].status = "active"

(* C2: deactivation is permanent: a credential whose is_active is false    *)
(* is, as long as its row exists, inactive after every step.               *)
C2_DeactivationPermanent ==
  [][\A i \in DOMAIN creds :
       (~creds[i].is_active /\ i \in DOMAIN creds') => ~creds'[i].is_active]_vars

C2_InactiveAcrossLaterRequests ==
  /\ req # NoExchange
  /\ resp.status = 200
  /\ \E i \in DOMAIN creds : ~creds[i].is_active /\ creds[i].updated_at < now

AuthenticatedAs(hdr) ==
  IF Head(hdr) = "Bearer" THEN hdr[2].sub
  ELSE creds[CHOOSE i \in DOMAIN creds :
               /\ creds[i].credential_type = "api_key"
               /\ creds[i].credential_hash = hashApiKey(Tail(hdr))].user_id

(* C3: a revoke-key request authenticated as B never deactivates a         *)
(* credential of another principal: the reply is 404 when the target id is *)
(* such a credential, and every such credential keeps its row.             *)
C3_RevokeOnlyOwn ==
  [][(Idle /\ req'.op \in RevokeOps /\ resp'.status # 401)
       => \A i \in DOMAIN creds :
            creds[i].user_id # AuthenticatedAs(req'.hdr)
              => /\ i \in DOMAIN creds'
                 /\ creds'[i] = creds[i]
                 /\ (req'.params.id = i => resp' = NotFound("API key not found"))]_vars

C3_ForeignKeyRevokeIsNotFound ==
  /\ req.op \in RevokeOps
  /\ resp.status = 404
  /\ req.params.id \in DOMAIN creds
  /\ creds[req.params.id].credential_type = "api_key"
  /\ creds[req.params.id].is_active
  /\ BearerRequest(req)
  /\ req.hdr[2].sub \in DOMAIN users
  /\ creds[req.params.id].user_id # req.hdr[2].sub

(* C4: a Bearer resolution whose token names a principal that is deleted,  *)
(* inactive or suspended fails with 401, however valid the token is.       *)
C4_BearerRereadsPrincipal ==
  [][(Idle /\ BearerRequest(req')
        /\ (\/ req'.hdr[2].sub \notin DOMAIN users
            \/ users[req'.hdr[2].sub].status # "active"))
       => resp'.status = 401]_vars

C4_ValidTokenOfInactivePrincipalRejected ==
  /\ BearerRequest(req)
  /\ req.hdr[2].sig = Sign(jwtSecret, req.hdr[2])
  /\ now < req.hdr[2].exp
  /\ req.hdr[2].sub \in DOMAIN users
  /\ users[req.hdr[2].sub].status # "active"
  /\ resp = Unauthorized("User not found or inactive")

IntFields ==
  {"id", "key", "credential_hash", "user_id", "expires_at", "last_used_at",
   "created_at", "updated_at", "sub", "iat", "exp", "total", "limit", "offset",
   "statusCode", "timestamp"}

IntLeaves(rec) == {rec[f] : f \in (DOMAIN rec \cap IntFields)}

RowLeaves(body, field) ==
  IF field \in DOMAIN body
  THEN UNION {IntLeaves(body[field][i]) : i \in 1..Len(body[field])}
  ELSE {}

PartLeaves(body, field) ==
  IF field \in DOMAIN body THEN IntLeaves(body[field]) ELSE {}

BodyLeaves(body) ==
  IntLeaves(body) \cup PartLeaves(body, "user") \cup PartLeaves(body, "token")
    \cup PartLeaves(body, "error") \cup RowLeaves(body, "api_keys")
    \cup RowLeaves(body, "users")

Disclosed(r, k) == r # NoExchange /\ k \in BodyLeaves(r.body)

(* C5: the plaintext of an api_key appears in one reply only, the 201 of  *)
(* the issue-key request that minted it; no stored row holds it and the    *)
(* key listing carries no hash.                                            *)
C5_OneTimeDisclosure ==
  [][/\ \A k \in keys' :
          Disclosed(resp', k)
            => (k \notin keys /\ req'.op \in IssueOps /\ resp'.body.key = k)
     /\ \A k \in keys' \ keys :
          /\ resp'.status = 201
          /\ resp'.body.key = k
          /\ \E i \in DOMAIN creds' \ DOMAIN creds :
               /\ resp'.body.id = i
               /\ creds'[i].credential_hash = hashApiKey(<<k>>)
     /\ \A k \in keys', i \in DOMAIN creds' : k \notin IntLeaves(creds'[i])
     /\ (req'.op = "GET /api-keys" /\ resp'.status = 200)
          => \A n \in 1..Len(resp'.body.api_keys) :
               /\ "credential_hash" \notin DOMAIN resp'.body.api_keys[n]
               /\ \A i \in DOMAIN creds' :
                    creds'[i].credential_hash \notin IntLeaves(resp'.body.api_keys[n])
    ]_vars

C5_ListedAfterMinting ==
  /\ req.op = "GET /api-keys"
  /\ resp.status = 200
  /\ Len(resp.body.api_keys) > 0
  /\ \E k \in keys, i \in DOMAIN creds :
       /\ creds[i].credential_hash = hashApiKey(<<k>>)
       /\ resp.body.api_keys[1].id = i

PasswordCredentials(u) ==
  {i \in DOMAIN creds : creds[i].user_id = u /\ creds[i].credential_type = "password"}

NoPrincipal(email) == \A u \in DOMAIN users : users[u].email # email

PrincipalNotActive(email) ==
  \E u \in DOMAIN users : users[u].email = email /\ users[u].status # "active"

NoActivePassword(email) ==
  \E u \in DOMAIN users :
    /\ users[u].email = email
    /\ \A i \in PasswordCredentials(u) : ~creds[i].is_active

WrongPassword(email, password) ==
  \E u \in DOMAIN users :
    /\ users[u].email = email
    /\ \A i \in PasswordCredentials(u) :
         creds[i].is_active => ~verifyPassword(password, creds[i].credential_hash)

(* C6: a login that fails because the email has no principal, because the *)
(* principal is not active, because it has no active password credential, *)
(* or because the password is wrong, gets the same 401 body and changes   *)
(* nothing in the store.                                                  *)
C6_LoginFailuresIndistinguishable ==
  [][(/\ Idle
      /\ req'.op = "POST /auth/login"
      /\ \/ NoPrincipal(req'.body.email)
         \/ PrincipalNotActive(req'.body.email)
         \/ NoActivePassword(req'.body.email)
         \/ WrongPassword(req'.body.email, req'.body.password))
       => /\ resp' = [status |-> 401,
                      body |-> [error |-> [message |-> <<"Invalid credentials">>,
                                           statusCode |-> 401]]]
          /\ users' = users
          /\ creds' = creds
          /\ tokens' = tokens]_vars

C6_WrongPasswordLooksLikeUnknownEmail ==
  /\ req.op = "POST /auth/login"
  /\ resp.status = 401
  /\ \E u \in DOMAIN users :
       /\ users[u].email = req.body.email
       /\ users[u].status = "active"
       /\ \E i \in PasswordCredentials(u) : creds[i].is_active
  /\ WrongPassword(req.body.email, req.body.password)

Verifies(i, password) ==
  /\ creds[i].is_active
  /\ verifyPassword(password, creds[i].credential_hash)

LoginCondition(email, password) ==
  \E u \in DOMAIN users :
    /\ users[u].email = email
    /\ users[u].status = "active"
    /\ \E i \in PasswordCredentials(u) : Verifies(i, password)

ExpectedFailures(p) ==
  (IF Len(p) >= 8 THEN <<>> ELSE <<"at least 8 characters">>)
    \o (IF \E i \in 1..Len(p) : p[i] \in Upper
        THEN <<>> ELSE <<"at least one uppercase letter">>)
    \o (IF \E i \in 1..Len(p) : p[i] \in Lower
        THEN <<>> ELSE <<"at least one lowercase letter">>)
    \o (IF \E i \in 1..Len(p) : p[i] \in Digits
        THEN <<>> ELSE <<"at least one number">>)
    \o (IF \E i \in 1..Len(p) : p[i] \notin (Upper \cup Lower \cup Digits)
        THEN <<>> ELSE <<"at least one special character">>)

Arriving == Idle /\ pending \subseteq pending'

(* C8: an arriving registration (a step that completes none in flight)     *)
(* that passes validation and names an email a principal already has is    *)
(* answered 409, creates no principal and no credential, and leaves every  *)
(* row as it was, so whoever could log in with that email still can.       *)
C8_DuplicateEmailConflict ==
  [][(/\ Arriving
      /\ req'.op = "POST /auth/register"
      /\ ExpectedFailures(req'.body.password) = <<>>
      /\ \E u \in DOMAIN users : users[u].email = req'.body.email)
       => /\ resp' = [status |-> 409,
                      body |-> [error |->
                                 [message |-> <<"A user with this email already exists">>,
                                  statusCode |-> 409]]]
          /\ users' = users
          /\ creds' = creds
          /\ pending' = pending
          /\ tokens' = tokens
          /\ \A e \in Emails, p \in Passwords :
               (req'.body.email = e)
                 => (LoginCondition(e, p)' <=> LoginCondition(e, p))
    ]_vars

C8_FirstRegistrantStillLogsIn ==
  /\ req.op = "POST /auth/register"
  /\ resp.status = 409
  /\ LoginCondition(req.body.email, req.body.password)

UniqueEmails ==
  \A i, j \in DOMAIN users : users[i].email = users[j].email => i = j

NoOrphanCredential == \A i \in DOMAIN creds : creds[i].user_id \in DOMAIN users

CreateOps == {"POST /auth/register", "POST /users"}

(* C9: whatever the interleaving of registrations and create-user          *)
(* requests, no two principals share an email and no credential lacks its  *)
(* owner; a request that inserts finds the email free and inserts one      *)
(* principal, and one that finds the email taken is answered 409 and       *)
(* inserts nothing.                                                        *)
C9_ConcurrentRegistration ==
  [][/\ UniqueEmails'
     /\ NoOrphanCredential'
     /\ \A e \in Emails :
          (/\ Arriving
           /\ \E u \in DOMAIN users : users[u].email = e
           /\ \/ /\ req'.op = "POST /users"
                 /\ resp'.status # 401
                 /\ req'.body.email = e
              \/ /\ req'.op = "POST /auth/register"
                 /\ req'.body.email = e
                 /\ ExpectedFailures(req'.body.password) = <<>>)
            => (resp'.status = 409 /\ users' = users)
     /\ \A u \in DOMAIN users' \ DOMAIN users :
          /\ DOMAIN users' = DOMAIN users \cup {u}
          /\ \A v \in DOMAIN users : users[v].email # users'[u].email
    ]_vars

C9_ConflictAgainstRegistrationInFlight ==
  /\ req.op \in CreateOps
  /\ resp.status = 409
  /\ \E p \in pending : p.user.email = req.body.email

NothingPersisted ==
  /\ users' = users
  /\ creds' = creds
  /\ nextUserId' = nextUserId
  /\ nextCredId' = nextCredId
  /\ pending' = pending
  /\ tokens' = tokens

(* C10: a registration whose password fails the policy persists nothing    *)
(* and issues no token; the reply names every failed rule.                 *)
C10_RejectionListsFailedRules ==
  [][(/\ Idle
      /\ req'.op = "POST /auth/register"
      /\ ExpectedFailures(req'.body.password) # <<>>)
       => /\ NothingPersisted
          /\ resp'.status \in {400, 422}
          /\ resp'.body.error.message
               = <<"Password too weak: ">> \o ExpectedFailures(req'.body.password)
    ]_vars

C10_ShortPasswordNamesLengthOnly ==
  /\ req.op = "POST /auth/register"
  /\ Len(ExpectedFailures(req.body.password)) > 1
  /\ resp.status = 400
  /\ resp.body.error.message
       = <<"body/password must NOT have fewer than 8 characters">>

(***************************************************************************)
(* The process environment at start.  init() of app.js registers the       *)
(* plugins and routes and reads no JWT_SECRET, so the application serves   *)
(* with whatever the environment holds, an unset secret included.          *)
(***************************************************************************)
Secrets == {"s1", NoSecret}

InitEnv ==
  /\ users = << >>
  /\ creds = << >>
  /\ nextUserId = 1
  /\ nextCredId = 1
  /\ now = 0
  /\ jwtSecret \in Secrets
  /\ pending = {}
  /\ tokens = {}
  /\ keys = {}
  /\ req = NoExchange
  /\ resp = NoExchange
  /\ steps = 0
  /\ inflight = {}
  /\ migrationSecret = "m1"
  /\ schema_migrations = << >>
  /\ committed = [f \in 1..Len(Files) |-> 0]
  /\ runs = << >>

SpecEnv == InitEnv /\ [][Next]_vars

(* C11: a registration in flight that ends in a failure leaves no row of   *)
(* the principal it inserted, and its email is free to register again.     *)
C11_RegisterIsOneTransaction ==
  [][\A p \in pending :
       (Idle /\ p \notin pending' /\ resp'.status = 500)
         => /\ p.user.id \notin DOMAIN users'
            /\ \A u \in DOMAIN users' : users'[u].email # p.user.email]_vars

C11_FailedRegistrationKeepsThePrincipal ==
  /\ req.op = "POST /auth/register"
  /\ resp.status = 500
  /\ \E u \in DOMAIN users :
       /\ users[u].email = req.body.email
       /\ \E i \in PasswordCredentials(u) : creds[i].is_active

(* C12: the application serves no request while the signing secret is      *)
(* unset, so no reply reports the missing secret.                          *)
C12_UnsetSecretServesNothing ==
  jwtSecret = NoSecret => (req = NoExchange /\ resp = NoExchange)

C12_LoginObservesTheMissingSecret ==
  /\ jwtSecret = NoSecret
  /\ req.op = "POST /auth/login"
  /\ resp.status = 500

PlainKeys == {generateApiKey(r) : r \in 1..(MaxKeys + 1)}

(* C13: an issue-key request without expires_in_days creates an api_key    *)
(* credential that never expires, one with expires_in_days = d creates one *)
(* that expires d days after its creation, and the new key resolves from   *)
(* the state the request leaves.                                           *)
C13_ExpiryFromRequest ==
  [][(Idle /\ req'.op \in IssueOps /\ resp'.status = 201)
       => /\ resp'.body.id \notin DOMAIN creds
          /\ resp'.body.id \in DOMAIN creds'
          /\ LET c == creds'[resp'.body.id]
             IN  /\ c.credential_type = "api_key"
                 /\ c.created_at = now
                 /\ c.expires_at = IF req'.body.expires_in_days = Absent
                                   THEN NULL
                                   ELSE c.created_at + req'.body.expires_in_days
          /\ \A k \in PlainKeys :
               resp'.body.key = k => EligibleExists(<<k>>)'
    ]_vars

C13_KeyWithoutExpiryInputExpires ==
  /\ req.op = "POST /api-keys"
  /\ req.body.expires_in_days = Absent
  /\ resp.status = 201
  /\ resp.body.expires_at = resp.body.created_at + DEFAULT_EXPIRES_IN_DAYS
  /\ creds[resp.body.id].expires_at = resp.body.expires_at

Expired(i) ==
  /\ creds[i].credential_type = "api_key"
  /\ creds[i].expires_at # NULL
  /\ creds[i].expires_at <= now
  /\ creds[i].user_id \in DOMAIN users
  /\ users[creds[i].user_id].status = "active"

Unexpired(j) ==
  /\ creds[j].credential_type = "api_key"
  /\ creds[j].is_active
  /\ (creds[j].expires_at = NULL \/ creds[j].expires_at > now)

(* C14: once an api_key of an active principal has expired, a resolution   *)
(* with that key fails, while a login with the principal's password, a     *)
(* Bearer resolution with its unexpired token and an ApiKey resolution     *)
(* with another of its keys, unexpired, succeed.                           *)
C14_ExpiryAffectsOnlyThatKey ==
  [][\A i \in DOMAIN creds :
       (Idle /\ Expired(i))
         => /\ (/\ ApiKeyRequest(req')
                /\ hashApiKey(Tail(req'.hdr)) = creds[i].credential_hash)
                 => resp'.status = 401
            /\ (/\ req'.op = "POST /auth/login"
                /\ req'.body.email = users[creds[i].user_id].email
                /\ \E j \in PasswordCredentials(creds[i].user_id) :
                     Verifies(j, req'.body.password))
                 => resp'.status = 200
            /\ (/\ BearerRequest(req')
                /\ verifyToken(Tail(req'.hdr)).ok
                /\ req'.hdr[2].sub = creds[i].user_id)
                 => resp'.status # 401
            /\ (/\ ApiKeyRequest(req')
                /\ \E j \in DOMAIN creds :
                     /\ j # i
                     /\ creds[j].user_id = creds[i].user_id
                     /\ Unexpired(j)
                     /\ hashApiKey(Tail(req'.hdr)) = creds[j].credential_hash)
                 => resp'.status # 401
    ]_vars

C14_OtherKeyResolvesAfterExpiry ==
  /\ ApiKeyRequest(req)
  /\ resp.status = 200
  /\ \E i, j \in DOMAIN creds :
       /\ i # j
       /\ Expired(i)
       /\ creds[i].is_active
       /\ creds[j].user_id = creds[i].user_id
       /\ Unexpired(j)
       /\ hashApiKey(Tail(req.hdr)) = creds[j].credential_hash

(***************************************************************************)
(* The first routes/auth.js: resolveAuth, called by its GET /auth/me.      *)
(* authHeader.split(' ') keeps the first two words: the scheme and the     *)
(* value, which is undefined when the header has one word.                 *)
(***************************************************************************)
Undefined == <<>>

resolveAuth(authHeader) ==
  IF authHeader = NoHeader
  THEN [ok |-> FALSE, reply |-> Unauthorized("Authorization header required")]
  ELSE
    LET scheme == authHeader[1]
        value == IF Len(authHeader) >= 2 THEN <<authHeader[2]>> ELSE Undefined
    IN  IF scheme = "Bearer"
        THEN LET auth == BearerAuth(value)
             IN  IF auth.ok
                 THEN [ok |-> TRUE, user |-> auth.user, credentialId |-> NULL,
                       touch |-> NULL]
                 ELSE auth
        ELSE IF scheme = "ApiKey"
        THEN IF value = Undefined
             THEN [ok |-> FALSE,
                   reply |-> Unauthorized("The \"data\" argument must be of type string")]
             ELSE LET auth == ApiKeyAuth(value)
                  IN  IF auth.ok
                      THEN [ok |-> TRUE, user |-> auth.user,
                            credentialId |-> auth.touch, touch |-> auth.touch]
                      ELSE auth
        ELSE [ok |-> FALSE,
              reply |-> Unauthorized("Unsupported auth scheme. Use Bearer or ApiKey")]

AuthMeResolve(hdr, touchOk) ==
  LET request == [op |-> "GET /auth/me resolveAuth", hdr |-> hdr]
      resolved == resolveAuth(hdr)
  IN  \/ Rejected(request, resolved)
      \/ /\ Begin
         /\ resolved.ok
         /\ req' = request
         /\ creds' = Touched(resolved, touchOk)
         /\ resp' = Reply(200, resolved.user)
         /\ UNCHANGED <<users, nextUserId, nextCredId, now, jwtSecret,
                        pending, tokens, keys>>

(***************************************************************************)
(* Authorization headers beyond the well-formed ones: one word only, a     *)
(* token or key followed by a space and more text, a token whose claims    *)
(* were altered after signing, other schemes and other letter case.        *)
(***************************************************************************)
Tampered(t) == [t EXCEPT !.exp = @ + 1]

ExtraWord == 7

OddHeaders ==
  {<<"Bearer">>, <<"ApiKey">>}
    \cup {<<"Bearer", t, t>> : t \in tokens}
    \cup {<<"Bearer", Tampered(t)>> : t \in tokens}
    \cup {<<"ApiKey", k, ExtraWord>> : k \in keys}
    \cup {<<"Basic", k>> : k \in keys}
    \cup {<<"bearer", t>> : t \in tokens}
    \cup {<<"apikey", k>> : k \in keys}

AllHeaders == Headers \cup OddHeaders

NextResolver ==
  \/ \E e \in Emails, n \in Names, p \in RegisterPasswords : Register(e, n, p)
  \/ \E p \in pending, salt \in Salts : RegisterFinish(p, salt)
  \/ \E e \in Emails, p \in LoginPasswords, t \in BOOLEAN : Login(e, p, t)
  \/ \E h \in Headers, t \in BOOLEAN, l \in Labels, d \in ExpiryInputs, r \in Randoms :
       IssueKey(h, t, l, d, r)
  \/ \E h \in Headers, t \in BOOLEAN, id \in 1..MaxCreds : RevokeKey(h, t, id)
  \/ \E h \in Headers, t \in BOOLEAN, id \in 1..MaxUsers, f \in UserUpdates :
       UpdateUser(h, t, id, f)
  \/ \E h \in AllHeaders, t \in BOOLEAN : AuthMe(h, t)
  \/ \E h \in AllHeaders, t \in BOOLEAN : AuthMeResolve(h, t)
  \/ Deliver
  \/ Tick

SpecResolver == Init /\ [][NextResolver]_vars

(***************************************************************************)
(* What a successful resolution hands to the route handler: authenticate   *)
(* sets request.user and nothing else; resolveAuth returns user and        *)
(* credentialId.                                                           *)
(***************************************************************************)
Decoration(auth) == [user |-> auth.user]

Resolution(resolved) ==
  [user |-> resolved.user, credentialId |-> resolved.credentialId]

CarriesMatched(r, h) ==
  /\ "credentialId" \in DOMAIN r
  /\ r.credentialId \in DOMAIN creds
  /\ creds[r.credentialId].credential_hash = hashApiKey(Tail(h))
  /\ r.user.id = creds[r.credentialId].user_id
  /\ r.user.id \in DOMAIN users
  /\ r.user.email = users[r.user.id].email

CarriesNone(r, h) ==
  /\ "credentialId" \in DOMAIN r => r.credentialId = NULL
  /\ r.user.id = h[2].sub
  /\ r.user.id \in DOMAIN users
  /\ r.user.email = users[r.user.id].email

(* C15: with a well-formed header, a successful ApiKey resolution hands on *)
(* the owning principal and the id of the matched credential, and a        *)
(* successful Bearer resolution the principal and no credential id.        *)
C15_ResolutionCarriesCredentialId ==
  \A h \in Headers :
    /\ authenticate(h).ok
         => IF Head(h) = "ApiKey"
            THEN CarriesMatched(Decoration(authenticate(h)), h)
            ELSE CarriesNone(Decoration(authenticate(h)), h)
    /\ resolveAuth(h).ok
         => IF Head(h) = "ApiKey"
            THEN CarriesMatched(Resolution(resolveAuth(h)), h)
            ELSE CarriesNone(Resolution(resolveAuth(h)), h)

C15_PluginDropsTheCredentialId ==
  /\ req.op = "GET /auth/me"
  /\ ApiKeyRequest(req)
  /\ resp.status = 200
  /\ authenticate(req.hdr).ok
  /\ "credentialId" \notin DOMAIN Decoration(authenticate(req.hdr))
  /\ CarriesMatched(Resolution(resolveAuth(req.hdr)), req.hdr)

ResolveOnlyOps == {"GET /auth/me", "GET /auth/me resolveAuth"}

OnlyTouched(m) ==
  /\ DOMAIN creds' = DOMAIN creds
  /\ \A i \in DOMAIN creds : i # m => creds'[i] = creds[i]
  /\ creds' \in {creds,
                 [creds EXCEPT ![m].last_used_at = now, ![m].updated_at = now]}

(* C16: a request that only resolves its caller changes no principal row;  *)
(* it changes no credential row when the resolution fails or the scheme is *)
(* Bearer, and when an ApiKey resolution succeeds it changes at most       *)
(* last_used_at and updated_at of the one credential of the resolved       *)
(* principal whose hash is that of the key.                                *)
C16_ResolutionOnlyTouches ==
  [][(Idle /\ req'.op \in ResolveOnlyOps)
       => /\ users' = users
          /\ (resp'.status = 401 \/ ~ApiKeyRequest(req')) => creds' = creds
          /\ (resp'.status # 401 /\ ApiKeyRequest(req'))
               => \E m \in DOMAIN creds :
                    /\ creds[m].user_id = resp'.body.id
                    /\ creds[m].credential_hash = hashApiKey(<<req'.hdr[2]>>)
                    /\ OnlyTouched(m)
    ]_vars

C16_TouchedBesideUntouchedRows ==
  /\ req.op \in ResolveOnlyOps
  /\ ApiKeyRequest(req)
  /\ resp.status = 200
  /\ \E m, i \in DOMAIN creds :
       /\ creds[m].credential_hash = hashApiKey(<<req.hdr[2]>>)
       /\ creds[m].last_used_at = now
       /\ creds[m].created_at < now
       /\ creds[i].user_id = creds[m].user_id
       /\ creds[i].last_used_at = NULL

TouchOutcomes(m) ==
  {creds, [creds EXCEPT ![m].last_used_at = now, ![m].updated_at = now]}

(* C17: the reply of an ApiKey resolution or a login that triggers the     *)
(* last-used touch is the same success, with the same principal and token, *)
(* whether the touch has been applied to the store or not.                 *)
C17_TouchNeverDecidesTheReply ==
  [][/\ (Idle /\ req'.op = "GET /auth/me" /\ ApiKeyRequest(req')
              /\ EligibleExists(Tail(req'.hdr)))
          => \E m \in DOMAIN creds :
               /\ creds[m].credential_hash = hashApiKey(Tail(req'.hdr))
               /\ resp' = [status |-> 200,
                           body |-> [id |-> creds[m].user_id,
                                     email |-> users[creds[m].user_id].email,
                                     name |-> users[creds[m].user_id].name]]
               /\ creds' \in TouchOutcomes(m)
     /\ \A e \in Emails, p \in Passwords :
          (Idle /\ req'.op = "POST /auth/login" /\ req'.body.email = e
                /\ req'.body.password = p /\ LoginCondition(e, p))
            => \E u \in DOMAIN users :
                 /\ users[u].email = e
                 /\ resp'.status = 200
                 /\ resp'.body.user = users[u]
                 /\ resp'.body.token
                      = [sub |-> u, email |-> e, name |-> users[u].name,
                         iat |-> now, exp |-> now + DEFAULT_EXPIRY,
                         sig |-> <<jwtSecret, u, e, users[u].name, now,
                                   now + DEFAULT_EXPIRY>>]
                 /\ \E m \in PasswordCredentials(u) : creds' \in TouchOutcomes(m)
    ]_vars

C17_SuccessWithTheTouchLost ==
  /\ req.op = "GET /auth/me"
  /\ ApiKeyRequest(req)
  /\ resp.status = 200
  /\ \E m \in DOMAIN creds :
       /\ creds[m].credential_hash = hashApiKey(Tail(req.hdr))
       /\ creds[m].last_used_at = NULL

Malformed(h) == Len(Tail(h)) # 1

WrongSignature(h) ==
  /\ Len(Tail(h)) = 1
  /\ h[2].sig # <<jwtSecret, h[2].sub, h[2].email, h[2].name, h[2].iat, h[2].exp>>

ExpiredToken(h) ==
  /\ Len(Tail(h)) = 1
  /\ h[2].sig = <<jwtSecret, h[2].sub, h[2].email, h[2].name, h[2].iat, h[2].exp>>
  /\ h[2].exp <= now

(* C18: a Bearer resolution by authenticate whose token is malformed,      *)
(* expired, altered after signing or signed with another secret is         *)
(* answered by one and the same 401, whatever the cause.                   *)
C18_TokenFailuresUniform ==
  [][(/\ Idle
      /\ BearerRequest(req')
      /\ req'.op # "GET /auth/me resolveAuth"
      /\ Malformed(req'.hdr) \/ WrongSignature(req'.hdr) \/ ExpiredToken(req'.hdr))
       => /\ resp' = [status |-> 401,
                      body |-> [error |-> [message |-> <<"Invalid or expired token">>,
                                           statusCode |-> 401]]]
          /\ UNCHANGED <<users, creds, tokens, keys>>
    ]_vars

C18_TamperedLooksLikeExpired ==
  /\ BearerRequest(req)
  /\ req.op = "GET /auth/me"
  /\ WrongSignature(req.hdr)
  /\ req.hdr[2].sig[1] = jwtSecret
  /\ resp = Unauthorized("Invalid or expired token")
  /\ \E t \in tokens : ExpiredToken(<<"Bearer", t>>)

ProtectedOps ==
  {"GET /auth/me", "GET /api-keys", "POST /api-keys", "POST /auth/api-keys",
   "DELETE /api-keys/:id", "DELETE /auth/api-keys/:id",
   "POST /users", "GET /users", "GET /users/:id", "PUT /users/:id",
   "DELETE /users/:id"}

ResolvesToActivePrincipal(h) ==
  /\ h # NoHeader
  /\ \/ /\ Head(h) = "Bearer"
        /\ ~Malformed(h) /\ ~WrongSignature(h) /\ ~ExpiredToken(h)
        /\ h[2].sub \in DOMAIN users
        /\ users[h[2].sub].status = "active"
     \/ /\ Head(h) = "ApiKey"
        /\ EligibleExists(Tail(h))

(* C19: on a protected route, a request whose credentials do not resolve   *)
(* to an active principal is answered 401 and leaves the store as it was;  *)
(* so every reply other than 401, and every change to the store, belongs   *)
(* to a request that resolved.                                             *)
C19_HandlerOnlyAfterResolution ==
  [][(Idle /\ req'.op \in ProtectedOps /\ ~ResolvesToActivePrincipal(req'.hdr))
       => /\ resp'.status = 401
          /\ DOMAIN resp'.body = {"error"}
          /\ UNCHANGED <<users, creds, nextUserId, nextCredId, tokens, keys>>
    ]_vars

C19_RevokedKeyCannotDelete ==
  /\ req.op = "DELETE /users/:id"
  /\ ApiKeyRequest(req)
  /\ \E i \in DOMAIN creds :
       /\ creds[i].credential_hash = hashApiKey(Tail(req.hdr))
       /\ ~creds[i].is_active
  /\ req.params.id \in DOMAIN users
  /\ resp.status = 401

Suspended(op, hdr, id, user, pc, touch) ==
  [op |-> op, hdr |-> hdr, id |-> id, user |-> user, pc |-> pc, touch |-> touch,
   owned |-> "not listed"]

Resume ==
  /\ Idle
  /\ UNCHANGED <<users, nextUserId, nextCredId, now, jwtSecret, pending,
                 tokens, keys, steps, migration>>

RevokeKeyArrive(hdr, touchOk, id) ==
  LET request == [op |-> "DELETE /api-keys/:id", hdr |-> hdr, params |-> [id |-> id]]
      auth == authenticate(hdr)
  IN  \/ Rejected(request, auth)
      \/ /\ Idle
         /\ steps < MaxSteps
         /\ steps' = steps + 1
         /\ auth.ok
         /\ creds' = Touched(auth, touchOk)
         /\ inflight' = inflight \cup
              {Suspended(request.op, hdr, id, auth.user, "findCredentialsByUserId", FALSE)}
         /\ req' = NoExchange
         /\ resp' = NoExchange
         /\ UNCHANGED <<users, nextUserId, nextCredId, now, jwtSecret, pending,
                        tokens, keys, migration>>

RevokeKeyOwnership(h) ==
  /\ Resume
  /\ h \in inflight
  /\ h.pc = "findCredentialsByUserId"
  /\ UNCHANGED creds
  /\ IF Owned(creds, h.user.id, h.id)
     THEN /\ inflight' = (inflight \ {h}) \cup
                 {[h EXCEPT !.pc = "deactivateCredential",
                            !.owned = IF creds[h.id].is_active
                                      THEN "active" ELSE "inactive"]}
          /\ req' = NoExchange
          /\ resp' = NoExchange
     ELSE /\ inflight' = inflight \ {h}
          /\ req' = [op |-> h.op, hdr |-> h.hdr, params |-> [id |-> h.id]]
          /\ resp' = NotFound("API key not found")

RevokeKeyDeactivate(h) ==
  /\ Resume
  /\ h \in inflight
  /\ h.pc = "deactivateCredential"
  /\ creds' = deactivateCredential(creds, h.id)
  /\ inflight' = (inflight \ {h}) \cup {[h EXCEPT !.pc = "reply"]}
  /\ req' = NoExchange
  /\ resp' = NoExchange

RevokeKeyReply(h) ==
  /\ Resume
  /\ h \in inflight
  /\ h.pc = "reply"
  /\ UNCHANGED creds
  /\ inflight' = (inflight \ {h}) \cup {[h EXCEPT !.pc = "replied"]}
  /\ req' = [op |-> h.op, hdr |-> h.hdr, params |-> [id |-> h.id]]
  /\ resp' = Reply(204, NoBody)

ApiKeyLookup(hdr) ==
  LET request == [op |-> "GET /auth/me", hdr |-> hdr]
      auth == authenticate(hdr)
  IN  /\ hdr # NoHeader
      /\ Head(hdr) = "ApiKey"
      /\ \/ Rejected(request, auth)
         \/ /\ Idle
            /\ steps < MaxSteps
            /\ steps' = steps + 1
            /\ auth.ok
            /\ inflight' = inflight \cup
                 {Suspended(request.op, hdr, auth.touch, auth.user, "handler", TRUE)}
            /\ req' = NoExchange
            /\ resp' = NoExchange
            /\ UNCHANGED <<users, creds, nextUserId, nextCredId, now, jwtSecret,
                           pending, tokens, keys, migration>>

ApiKeyTouch(h, touchOk) ==
  /\ Resume
  /\ h \in inflight
  /\ h.touch
  /\ creds' = IF touchOk THEN updateLastUsed(creds, h.id) ELSE creds
  /\ inflight' = (inflight \ {h}) \cup
                   (IF h.pc = "replied" THEN {} ELSE {[h EXCEPT !.touch = FALSE]})
  /\ req' = NoExchange
  /\ resp' = NoExchange

ApiKeyReply(h) ==
  /\ Resume
  /\ h \in inflight
  /\ h.op = "GET /auth/me"
  /\ h.pc = "handler"
  /\ UNCHANGED creds
  /\ inflight' = (inflight \ {h}) \cup
                   (IF h.touch THEN {[h EXCEPT !.pc = "replied"]} ELSE {})
  /\ req' = [op |-> h.op, hdr |-> h.hdr]
  /\ resp' = Reply(200, h.user)

NextRace ==
  \/ \E e \in Emails, n \in Names, p \in {PwStrong} : Register(e, n, p)
  \/ \E p \in pending, salt \in Salts : RegisterFinish(p, salt)
  \/ \E h \in Headers, t \in BOOLEAN, l \in Labels, r \in Randoms :
       IssueKey(h, t, l, Absent, r)
  \/ \E h \in Headers, t \in BOOLEAN, id \in 1..MaxUsers : DeleteUser(h, t, id)
  \/ \E h \in Headers, t \in BOOLEAN, id \in 1..MaxCreds : RevokeKeyArrive(h, t, id)
  \/ \E h \in inflight : RevokeKeyOwnership(h)
  \/ \E h \in inflight : RevokeKeyDeactivate(h)
  \/ \E h \in inflight : RevokeKeyReply(h)
  \/ \E h \in Headers : ApiKeyLookup(h)
  \/ \E h \in inflight, t \in BOOLEAN : ApiKeyTouch(h, t)
  \/ \E h \in inflight : ApiKeyReply(h)
  \/ Deliver

SpecRace == Init /\ [][NextRace]_vars

(* C21: revoke and ApiKey resolution of one key, interleaved statement by  *)
(* statement: a resolution is answered 200 only if its lookup succeeded,   *)
(* and 401 otherwise; a lookup made after the revoke has replied fails;    *)
(* and the last-used touch, whenever it lands, changes last_used_at and    *)
(* updated_at of its own row only, so never re-activates the credential.   *)
C21_RevokeAndUseInterleave ==
  [][/\ (Idle /\ req'.op = "GET /auth/me")
          => \/ resp' = Unauthorized("Invalid or revoked API key")
             \/ /\ resp'.status = 200
                /\ \E h \in inflight : h.hdr = req'.hdr /\ h.pc = "handler"
                                       /\ resp'.body = h.user
     /\ \A r \in inflight :
          (r.op = "DELETE /api-keys/:id" /\ r.pc = "replied")
            => /\ \A h \in inflight' \ inflight :
                    (h.op = "GET /auth/me" /\ h.pc = "handler" /\ h.touch)
                      => h.id # r.id
               /\ \A k \in keys :
                    (/\ r.id \in DOMAIN creds
                     /\ creds[r.id].credential_hash = hashApiKey(<<k>>))
                      => ~EligibleExists(<<k>>)
     /\ \A h \in inflight :
          (h.touch /\ h \notin inflight' /\ req' = NoExchange)
            => /\ DOMAIN creds' = DOMAIN creds
               /\ \A i \in DOMAIN creds :
                    /\ i # h.id => creds'[i] = creds[i]
                    /\ [creds'[i] EXCEPT !.last_used_at = creds[i].last_used_at,
                                         !.updated_at = creds[i].updated_at] = creds[i]
    ]_vars

C21_SucceedsAcrossTheRevoke ==
  /\ req.op = "GET /auth/me"
  /\ resp.status = 200
  /\ \E r \in inflight :
       /\ r.op = "DELETE /api-keys/:id"
       /\ r.pc = "replied"
       /\ r.id \in DOMAIN creds
       /\ creds[r.id].credential_hash = hashApiKey(Tail(req.hdr))
       /\ ~creds[r.id].is_active
       /\ creds[r.id].last_used_at # NULL

(***************************************************************************)
(* POST /auth/register with a body that has no password: the route as it   *)
(* was while the password was optional, and the route as it is now.        *)
(***************************************************************************)
RegisterOptional(email, name) ==
  /\ Begin
  /\ req' = [op |-> "POST /auth/register optional",
             body |-> [email |-> email, name |-> name]]
  /\ UNCHANGED <<creds, nextCredId, now, jwtSecret, pending, tokens, keys>>
  /\ IF EmailTaken(email)
     THEN /\ resp' = ConflictReply
          /\ UNCHANGED <<users, nextUserId>>
     ELSE /\ nextUserId <= MaxUsers
          /\ users' = users @@ (nextUserId :> createUser(email, name))
          /\ nextUserId' = nextUserId + 1
          /\ resp' = Reply(201, [user |-> createUser(email, name)])

RegisterRequired(email, name) ==
  /\ Begin
  /\ req' = [op |-> "POST /auth/register",
             body |-> [email |-> email, name |-> name]]
  /\ resp' = ErrorReply(400, "body must have required property 'password'")
  /\ UNCHANGED <<users, creds, nextUserId, nextCredId, now, jwtSecret,
                 pending, tokens, keys>>

NextRegister ==
  \/ \E e \in Emails, n \in Names : RegisterOptional(e, n)
  \/ \E e \in Emails, n \in Names : RegisterRequired(e, n)
  \/ \E e \in Emails, n \in Names, p \in RegisterPasswords : Register(e, n, p)
  \/ \E p \in pending, salt \in Salts : RegisterFinish(p, salt)
  \/ \E e \in Emails, p \in LoginPasswords, t \in BOOLEAN : Login(e, p, t)
  \/ \E h \in Headers, t \in BOOLEAN : AuthMe(h, t)
  \/ \E h \in Headers, t \in BOOLEAN, e \in Emails, n \in Names : CreateUser(h, t, e, n)
  \/ Deliver

SpecRegister == Init /\ [][NextRegister]_vars

(* C22: a registration without a password creates an active principal     *)
(* that has no credential and returns no token; a principal that has no    *)
(* credential is refused at login and is never the principal a request     *)
(* resolves to.                                                            *)
C22_PasswordlessRegistration ==
  [][/\ (/\ Idle
         /\ req'.op \in {"POST /auth/register", "POST /auth/register optional"}
         /\ "password" \notin DOMAIN req'.body
         /\ ~EmailTaken(req'.body.email))
          => /\ resp'.status = 201
             /\ DOMAIN resp'.body = {"user"}
             /\ \E u \in DOMAIN users' \ DOMAIN users :
                  /\ users'[u].email = req'.body.email
                  /\ users'[u].status = "active"
                  /\ resp'.body.user = users'[u]
                  /\ \A c \in DOMAIN creds' : creds'[c].user_id # u
     /\ (/\ Idle
         /\ req'.op = "POST /auth/login"
         /\ \E u \in DOMAIN users :
              /\ users[u].email = req'.body.email
              /\ \A c \in DOMAIN creds : creds[c].user_id # u)
          => resp' = Reply(401, genericError)
     /\ (/\ Idle
         /\ req'.op = "GET /auth/me"
         /\ resp'.status = 200)
          => \E c \in DOMAIN creds : creds[c].user_id = resp'.body.id
    ]_vars

C22_NoCredentialNoLogin ==
  /\ req.op = "POST /auth/login"
  /\ resp = Reply(401, genericError)
  /\ \E u \in DOMAIN users :
       /\ users[u].email = req.body.email
       /\ users[u].status = "active"
       /\ \A c \in DOMAIN creds : creds[c].user_id # u
  /\ \E v \in DOMAIN users : \E c \in DOMAIN creds : creds[c].user_id = v

(* C23: a credential row leaves the store only in the step that deletes   *)
(* its owning principal; a successful revoke keeps every row and leaves    *)
(* the target inactive; no credential is left without its principal, so a  *)
(* key whose row is gone and a token whose principal is gone are answered  *)
(* 401.                                                                    *)
C23_RowsLeaveOnlyByCascade ==
  [][/\ \A i \in DOMAIN creds :
          i \notin DOMAIN creds'
            => /\ req'.op = "DELETE /users/:id"
               /\ resp'.status = 204
               /\ creds[i].user_id = req'.params.id
               /\ req'.params.id \in DOMAIN users
               /\ req'.params.id \notin DOMAIN users'
     /\ (Idle /\ req'.op \in RevokeOps /\ resp'.status = 204)
          => /\ DOMAIN creds' = DOMAIN creds
             /\ ~creds'[req'.params.id].is_active
     /\ \A c \in DOMAIN creds' : creds'[c].user_id \in DOMAIN users'
     /\ (/\ Idle
         /\ ApiKeyRequest(req')
         /\ \A c \in DOMAIN creds :
              creds[c].credential_hash # hashApiKey(Tail(req'.hdr)))
          => resp' = Unauthorized("Invalid or revoked API key")
     /\ (Idle /\ BearerRequest(req') /\ req'.hdr[2].sub \notin DOMAIN users)
          => resp'.status = 401
    ]_vars

C23_KeyOfDeletedPrincipalRefused ==
  /\ ApiKeyRequest(req)
  /\ req.hdr[2] \in keys
  /\ \A c \in DOMAIN creds : creds[c].credential_hash # hashApiKey(Tail(req.hdr))
  /\ resp = Unauthorized("Invalid or revoked API key")
  /\ nextUserId > 1
  /\ users = << >>

(* C24: in every reachable state every password credential has            *)
(* expires_at null, so the login path, which never reads expires_at,       *)
(* accepts no credential that the eligibility rule would call expired.     *)
C24_PasswordsNeverExpire ==
  \A c \in DOMAIN creds :
    creds[c].credential_type = "password" => creds[c].expires_at = NULL

C24_OldPasswordStillLogsIn ==
  /\ req.op = "POST /auth/login"
  /\ resp.status = 200
  /\ now > 0
  /\ \E c \in DOMAIN creds :
       /\ creds[c].credential_type = "password"
       /\ creds[c].user_id = resp.body.user.id
       /\ creds[c].created_at < now
       /\ creds[c].last_used_at = now

(***************************************************************************)
(* routes/migrate.js and db/migrator.js.  POST /migrate checks the         *)
(* x-migration-secret header and calls runMigrations; an execution of      *)
(* runMigrations is a record of runs, advanced one query at a time, so     *)
(* that two executions interleave.  A file's SQL may fail.  The INSERT     *)
(* into schema_migrations waits while another transaction holds an         *)
(* uncommitted row of the same filename (filename is UNIQUE).              *)
(***************************************************************************)
MigrateHeaders ==
  {("x-migration-secret" :> v) : v \in {"m1", "guess", ""}} \cup {<< >>}

getPendingMigrationsAll(appliedMigrations) == Files

getPendingMigrations(appliedMigrations) ==
  SelectSeq(Files, LAMBDA file :
                     \A i \in 1..Len(appliedMigrations) : appliedMigrations[i] # file)

InitMigrate ==
  /\ users = << >>
  /\ creds = << >>
  /\ nextUserId = 1
  /\ nextCredId = 1
  /\ now = 0
  /\ jwtSecret = "s1"
  /\ pending = {}
  /\ tokens = {}
  /\ keys = {}
  /\ req = NoExchange
  /\ resp = NoExchange
  /\ steps = 0
  /\ inflight = {}
  /\ migrationSecret \in {"m1", NoSecret}
  /\ schema_migrations = << >>
  /\ committed = [f \in 1..Len(Files) |-> 0]
  /\ runs = << >>

Advance ==
  /\ Idle
  /\ UNCHANGED <<users, creds, nextUserId, nextCredId, now, jwtSecret, pending,
                 tokens, keys, steps, inflight, migrationSecret>>

MigrateArriveUnchecked(headers) ==
  /\ Advance
  /\ Len(runs) < MaxRuns
  /\ runs' = Append(runs, [pc |-> "getAppliedMigrations", headers |-> headers,
                           pendingMigrations |-> << >>, k |-> 1,
                           error |-> << >>, connected |-> TRUE])
  /\ req' = NoExchange
  /\ resp' = NoExchange
  /\ UNCHANGED <<schema_migrations, committed>>

MigrateArrive(headers) ==
  LET request == [op |-> "POST /migrate", headers |-> headers]
      rejected(reply) == /\ req' = request
                         /\ resp' = reply
                         /\ UNCHANGED <<schema_migrations, committed, runs>>
  IN  /\ Advance
      /\ IF "x-migration-secret" \notin DOMAIN headers
         THEN rejected(ErrorReply(400, "headers must have required property 'x-migration-secret'"))
         ELSE IF migrationSecret = NoSecret
         THEN rejected(Reply(500, [error |-> [message |-> <<"Migration secret not configured">>,
                                              statusCode |-> 500]]))
         ELSE IF headers["x-migration-secret"] # migrationSecret
         THEN rejected(Reply(401, [error |-> [message |-> <<"Unauthorized">>,
                                              statusCode |-> 401]]))
         ELSE /\ Len(runs) < MaxRuns
              /\ runs' = Append(runs, [pc |-> "getAppliedMigrations", headers |-> headers,
                                       pendingMigrations |-> << >>, k |-> 1,
                                       error |-> << >>, connected |-> TRUE])
              /\ req' = NoExchange
              /\ resp' = NoExchange
              /\ UNCHANGED <<schema_migrations, committed>>

RunRead(r) ==
  LET pendingMigrations == getPendingMigrations(schema_migrations)
  IN  /\ Advance
      /\ runs[r].pc = "getAppliedMigrations"
      /\ runs' = [runs EXCEPT ![r].pendingMigrations = pendingMigrations,
                              ![r].pc = IF Len(pendingMigrations) = 0
                                        THEN "end" ELSE "sql"]
      /\ req' = NoExchange
      /\ resp' = NoExchange
      /\ UNCHANGED <<schema_migrations, committed>>

RunSqlAutocommit(r, ok) ==
  /\ Advance
  /\ runs[r].pc = "sql"
  /\ runs' = [runs EXCEPT ![r].pc = "insert"]
  /\ committed' = [committed EXCEPT
                     ![CHOOSE f \in 1..Len(Files) :
                         Files[f] = runs[r].pendingMigrations[runs[r].k]] = @ + 1]
  /\ req' = NoExchange
  /\ resp' = NoExchange
  /\ UNCHANGED schema_migrations

RunSql(r, ok) ==
  /\ Advance
  /\ runs[r].pc = "sql"
  /\ runs' = IF ok
             THEN [runs EXCEPT ![r].pc = "insert"]
             ELSE [runs EXCEPT ![r].pc = "end",
                               ![r].error = <<"migration SQL failed">>]
  /\ req' = NoExchange
  /\ resp' = NoExchange
  /\ UNCHANGED <<schema_migrations, committed>>

RunInsertNotUnique(r) ==
  /\ Advance
  /\ runs[r].pc = "insert"
  /\ runs' = [runs EXCEPT ![r].pc = "commit"]
  /\ req' = NoExchange
  /\ resp' = NoExchange
  /\ UNCHANGED <<schema_migrations, committed>>

RunInsert(r) ==
  LET filename == runs[r].pendingMigrations[runs[r].k]
  IN  /\ Advance
      /\ runs[r].pc = "insert"
      /\ \A q \in DOMAIN runs :
           (q # r /\ runs[q].pc = "commit")
             => runs[q].pendingMigrations[runs[q].k] # filename
      /\ runs' = IF \E i \in 1..Len(schema_migrations) : schema_migrations[i] = filename
                 THEN [runs EXCEPT ![r].pc = "end",
                                   ![r].error = <<"duplicate key value violates unique constraint">>]
                 ELSE [runs EXCEPT ![r].pc = "commit"]
      /\ req' = NoExchange
      /\ resp' = NoExchange
      /\ UNCHANGED <<schema_migrations, committed>>

RunCommit(r) ==
  LET filename == runs[r].pendingMigrations[runs[r].k]
  IN  /\ Advance
      /\ runs[r].pc = "commit"
      /\ schema_migrations' = Append(schema_migrations, filename)
      /\ committed' = [committed EXCEPT
                         ![CHOOSE f \in 1..Len(Files) : Files[f] = filename] = @ + 1]
      /\ runs' = IF runs[r].k < Len(runs[r].pendingMigrations)
                 THEN [runs EXCEPT ![r].k = @ + 1, ![r].pc = "sql"]
                 ELSE [runs EXCEPT ![r].pc = "end"]
      /\ req' = NoExchange
      /\ resp' = NoExchange

RunEnd(r) ==
  /\ Advance
  /\ runs[r].pc = "end"
  /\ runs' = [runs EXCEPT ![r].pc = "closed", ![r].connected = FALSE]
  /\ req' = [op |-> "POST /migrate", headers |-> runs[r].headers]
  /\ resp' = IF runs[r].error # << >>
             THEN Reply(500, [error |-> [message |-> runs[r].error,
                                         statusCode |-> 500]])
             ELSE IF Len(runs[r].pendingMigrations) = 0
             THEN Reply(200, [applied |-> << >>,
                              message |-> <<"No pending migrations">>])
             ELSE Reply(200, [applied |-> runs[r].pendingMigrations,
                              message |-> <<"Successfully applied",
                                            ToString(Len(runs[r].pendingMigrations)),
                                            "migration(s)">>])
  /\ UNCHANGED <<schema_migrations, committed>>

NextMigrate ==
  \/ \E h \in MigrateHeaders : MigrateArrive(h)
  \/ \E r \in DOMAIN runs : RunRead(r)
  \/ \E r \in DOMAIN runs, ok \in BOOLEAN : RunSql(r, ok)
  \/ \E r \in DOMAIN runs : RunInsert(r)
  \/ \E r \in DOMAIN runs : RunCommit(r)
  \/ \E r \in DOMAIN runs : RunEnd(r)
  \/ Deliver

SpecMigrate == InitMigrate /\ [][NextMigrate]_vars

(* C25: runMigrations takes as pending exactly the files not recorded in   *)
(* schema_migrations, in ascending filename order; the recorded filenames  *)
(* only grow; no file's SQL is committed twice; a successful run returns   *)
(* the names it applied, all of them recorded, in that order; and a run    *)
(* that finds nothing pending applies nothing and returns applied = []     *)
(* with 'No pending migrations'.                                           *)
C25_ForwardOnlyOnce ==
  [][/\ \A r \in DOMAIN runs :
          (runs[r].pc = "getAppliedMigrations" /\ runs'[r].pc # "getAppliedMigrations")
            => LET pm == runs'[r].pendingMigrations
               IN  /\ \A f \in 1..Len(Files) :
                        (\E i \in 1..Len(pm) : pm[i] = Files[f])
                          <=> (\A j \in 1..Len(schema_migrations) :
                                 schema_migrations[j] # Files[f])
                   /\ \A i, j \in 1..Len(pm) :
                        i < j => \E a, b \in 1..Len(Files) :
                                   a < b /\ Files[a] = pm[i] /\ Files[b] = pm[j]
                   /\ (pm = << >>) => /\ runs'[r].pc = "end"
                                      /\ UNCHANGED <<schema_migrations, committed>>
     /\ Len(schema_migrations') >= Len(schema_migrations)
     /\ \A i \in 1..Len(schema_migrations) : schema_migrations'[i] = schema_migrations[i]
     /\ \A f \in 1..Len(Files) : committed'[f] <= 1
     /\ (Idle /\ req'.op = "POST /migrate" /\ resp'.status = 200)
          => \E r \in DOMAIN runs :
               /\ runs[r].pc = "end"
               /\ runs'[r].pc = "closed"
               /\ resp'.body.applied = runs[r].pendingMigrations
               /\ \A i, j \in 1..Len(resp'.body.applied) :
                    i <= j => \E a, b \in 1..Len(schema_migrations) :
                                /\ a <= b
                                /\ (i < j => a < b)
                                /\ schema_migrations[a] = resp'.body.applied[i]
                                /\ schema_migrations[b] = resp'.body.applied[j]
               /\ (resp'.body.applied = << >>)
                    <=> (resp'.body.message = <<"No pending migrations">>)
    ]_vars

C25_SecondRunAppliesNothing ==
  /\ req.op = "POST /migrate"
  /\ resp = Reply(200, [applied |-> << >>, message |-> <<"No pending migrations">>])
  /\ schema_migrations = Files
  /\ \E r \in DOMAIN runs :
       /\ runs[r].pc = "closed"
       /\ runs[r].error = << >>
       /\ runs[r].pendingMigrations = Files

(* C26: a filename is recorded exactly when its file's SQL is committed,   *)
(* in the same step; when a migration fails nothing of it is committed or  *)
(* recorded, the run attempts no further migration, what was recorded      *)
(* before stays, the caller gets the error as a 500 reply, and the         *)
(* connection is closed when the run ends, whether it failed or not.       *)
C26_MigrationAtomicWithRecord ==
  [][/\ \A f \in 1..Len(Files) :
          committed'[f] = Cardinality({i \in 1..Len(schema_migrations') :
                                         schema_migrations'[i] = Files[f]})
     /\ (committed' # committed) <=> (schema_migrations' # schema_migrations)
     /\ \A i \in 1..Len(schema_migrations) :
          /\ i <= Len(schema_migrations')
          /\ schema_migrations'[i] = schema_migrations[i]
     /\ \A r \in DOMAIN runs :
          /\ (runs[r].error = << >> /\ runs'[r].error # << >>)
               => /\ UNCHANGED <<schema_migrations, committed>>
                  /\ runs'[r].pc = "end"
                  /\ runs'[r].k = runs[r].k
          /\ runs[r].error # << >>
               => /\ runs'[r].error = runs[r].error
                  /\ runs'[r].k = runs[r].k
                  /\ runs'[r].pc \in {"end", "closed"}
                  /\ runs'[r].pc # runs[r].pc => UNCHANGED <<schema_migrations, committed>>
          /\ (runs[r].pc # "closed" /\ runs'[r].pc = "closed")
               => /\ ~runs'[r].connected
                  /\ req'.op = "POST /migrate"
                  /\ IF runs[r].error # << >>
                     THEN resp' = [status |-> 500,
                                   body |-> [error |-> [message |-> runs[r].error,
                                                        statusCode |-> 500]]]
                     ELSE resp'.status = 200
          /\ runs'[r].pc # "closed" => runs'[r].connected
    ]_vars

C26_SecondMigrationFailed ==
  /\ req.op = "POST /migrate"
  /\ resp.status = 500
  /\ schema_migrations = <<Files[1]>>
  /\ committed = (1 :> 1) @@ (2 :> 0)
  /\ \E r \in DOMAIN runs :
       /\ runs[r].pendingMigrations = Files
       /\ runs[r].k = 2
       /\ runs[r].error = resp.body.error.message
       /\ runs[r].pc = "closed"
       /\ ~runs[r].connected

(* C27 as stated: POST /migrate starts runMigrations only when the         *)
(* x-migration-secret header equals MIGRATION_SECRET; a request is         *)
(* answered 500 when the secret is not configured and 401 when its header  *)
(* differs from the configured one, and neither applies a migration.       *)
C27_RejectedWith500Or401 ==
  [][/\ (Idle /\ req'.op = "POST /migrate" /\ runs' = runs)
          => /\ migrationSecret = NoSecret => resp'.status = 500
             /\ (/\ migrationSecret # NoSecret
                 /\ \/ "x-migration-secret" \notin DOMAIN req'.headers
                    \/ req'.headers["x-migration-secret"] # migrationSecret)
                  => resp'.status = 401
             /\ UNCHANGED <<schema_migrations, committed>>
     /\ Len(runs') > Len(runs)
          => /\ migrationSecret # NoSecret
             /\ runs'[Len(runs')].headers = ("x-migration-secret" :> migrationSecret)
    ]_vars

(* C27, amended: a request without the x-migration-secret header is        *)
(* answered 400 by the route's schema; one that carries it is answered 500 *)
(* when MIGRATION_SECRET is not configured and 401 when the two differ;    *)
(* none of the three applies a migration or starts runMigrations, which    *)
(* runs only for a header equal to the configured secret; and a failure    *)
(* inside runMigrations becomes the route's own 500 reply.                 *)
C27_MigrateNeedsTheSecret ==
  [][/\ (Idle /\ req'.op = "POST /migrate" /\ runs' = runs)
          => /\ resp'.status =
                  IF "x-migration-secret" \notin DOMAIN req'.headers THEN 400
                  ELSE IF migrationSecret = NoSecret THEN 500
                  ELSE 401
             /\ resp'.status = 401
                  => req'.headers["x-migration-secret"] # migrationSecret
             /\ UNCHANGED <<schema_migrations, committed>>
     /\ Len(runs') > Len(runs)
          => /\ migrationSecret # NoSecret
             /\ runs'[Len(runs')].headers = ("x-migration-secret" :> migrationSecret)
     /\ <<schema_migrations, committed>>' # <<schema_migrations, committed>>
          => \E r \in DOMAIN runs :
               /\ runs'[r] # runs[r]
               /\ runs[r].headers = ("x-migration-secret" :> migrationSecret)
     /\ \A r \in DOMAIN runs :
          (runs[r].error # << >> /\ runs[r].pc = "end" /\ runs'[r].pc = "closed")
            => /\ resp'.status = 500
               /\ DOMAIN resp'.body.error = {"message", "statusCode"}
               /\ resp'.body.error.message = runs[r].error
    ]_vars

C27_WrongSecretAppliesNothing ==
  /\ req.op = "POST /migrate"
  /\ "x-migration-secret" \in DOMAIN req.headers
  /\ req.headers["x-migration-secret"] = "guess"
  /\ resp.status = 401
  /\ schema_migrations = <<Files[1]>>
  /\ \A r \in DOMAIN runs : runs[r].pc = "closed"

(* C28: when executions of runMigrations interleave, no file's SQL is      *)
(* committed twice and schema_migrations holds no filename twice: an       *)
(* execution commits a file only if it is not recorded yet, an INSERT of   *)
(* a filename waits for the transaction that holds the same filename       *)
(* uncommitted, and the INSERT of a recorded filename fails, so that       *)
(* execution's transaction is rolled back and the execution ends in an     *)
(* error.                                                                  *)
C28_InterleavedRunsCommitOnce ==
  [][/\ \A f \in 1..Len(Files) : committed'[f] <= 1
     /\ \A i, j \in 1..Len(schema_migrations') :
          i # j => schema_migrations'[i] # schema_migrations'[j]
     /\ \A r \in DOMAIN runs :
          /\ (runs[r].pc = "commit" /\ runs'[r].pc # "commit")
               => /\ \A i \in 1..Len(schema_migrations) :
                       schema_migrations[i] # runs[r].pendingMigrations[runs[r].k]
                  /\ schema_migrations' =
                       Append(schema_migrations, runs[r].pendingMigrations[runs[r].k])
          /\ (runs[r].pc = "insert" /\ runs'[r].pc # "insert")
               => /\ \A q \in DOMAIN runs :
                       (q # r /\ runs[q].pc = "commit")
                         => runs[q].pendingMigrations[runs[q].k]
                              # runs[r].pendingMigrations[runs[r].k]
                  /\ (\E i \in 1..Len(schema_migrations) :
                        schema_migrations[i] = runs[r].pendingMigrations[runs[r].k])
                       => /\ runs'[r].pc = "end"
                          /\ runs'[r].error # << >>
                          /\ UNCHANGED <<schema_migrations, committed>>
          /\ (runs[r].pc = "end" /\ runs'[r].pc = "closed" /\ resp'.status = 200)
               => \A q \in DOMAIN runs :
                    (q # r /\ runs[q].pc = "closed" /\ runs[q].error = << >>)
                      => \A i \in 1..Len(runs[r].pendingMigrations),
                            j \in 1..Len(runs[q].pendingMigrations) :
                           runs[r].pendingMigrations[i] # runs[q].pendingMigrations[j]
    ]_vars

C28_LoserRolledBack ==
  /\ committed = [f \in 1..Len(Files) |-> 1]
  /\ schema_migrations = Files
  /\ \E r, q \in DOMAIN runs :
       /\ r # q
       /\ runs[r].pendingMigrations = Files
       /\ runs[q].pendingMigrations = Files
       /\ runs[r].pc = "closed"
       /\ runs[q].pc = "closed"
       /\ runs[r].error = << >>
       /\ runs[q].error = <<"duplicate key value violates unique constraint">>
       /\ runs[q].k = 1

(* C29: whenever revoke-key replies 204, the target api_key credential is  *)
(* in the store with is_active false at that moment, whatever ran between  *)
(* the ownership check, the deactivation and the reply.                    *)
C29_RevokedKeyExistsInactive ==
  [][(Idle /\ req'.op = "DELETE /api-keys/:id" /\ resp'.status = 204)
       => /\ req'.params.id \in DOMAIN creds'
          /\ creds'[req'.params.id].credential_type = "api_key"
          /\ ~creds'[req'.params.id].is_active
    ]_vars

C29_SuccessForAVanishedKey ==
  /\ req.op = "DELETE /api-keys/:id"
  /\ resp.status = 204
  /\ req.params.id \notin DOMAIN creds
  /\ req.params.id < nextCredId
  /\ \E h \in inflight : h.pc = "replied" /\ h.id = req.params.id
                         /\ h.user.id \notin DOMAIN users

====
